---- MODULE Spec2Model ----
(***************************************************************************)
(* Model of the event-to-metrics aggregation engine of the xAPI dashboard: *)
(* CourseDataProcessor and DataAggregator (src/src/utils/dataAggregator.js)*)
(* and DataValidator (src/src/utils/dataValidator.js).                     *)
(*                                                                         *)
(* Conventions                                                             *)
(*  - a timestamp is an integer number of milliseconds since the epoch of  *)
(*    the model (new Date(ts) - new Date(ts') is ts - ts');                *)
(*  - a UTC calendar date, new Date(ts).toISOString().split('T')[0], is    *)
(*    the day number ts \div DayMs: the ISO date strings of four-digit     *)
(*    years sort as their day numbers and new Date(dateString) is UTC      *)
(*    midnight of that day, DateMs(d);                                     *)
(*  - result.score.scaled is held in thousandths (scaledMilli), so that    *)
(*    Math.round(scaled * 100) is a rounding and not the identity;         *)
(*  - Math.round(n / d) for d > 0 is RoundDiv(n, d) (round half up);       *)
(*    quotients and means are exact fractions, the rounding error of the   *)
(*    IEEE doubles of the program is not modelled.                         *)
(***************************************************************************)
EXTENDS Integers, Sequences, FiniteSets, TLC

VARIABLES statements, now, data, anomalies, pc, ret,
          statement, rawData, processedData, processingError, xapi

\* statement: the argument of validateStatement; rawData, processedData and
\* processingError: the state of the useProcessedData hook; xapi: the state of
\* the useXAPIData hook (its data is rawData) and the fetches in flight
hookVars == <<statement, rawData, processedData, processingError, xapi>>

vars == <<statements, now, data, anomalies, pc, ret, hookVars>>

(***************************************************************************)
(* Program constants                                                       *)
(***************************************************************************)
DayMs == 86400000

SessionGapMs == 3600000

FreshDays == 7

PenaltyPerDay == 10

PerfectScore == 100

SuspiciousMinCount == 5

VerbCompleted == "http://adlnet.gov/expapi/verbs/completed"

VerbExperienced == "http://adlnet.gov/expapi/verbs/experienced"

VerbScored == "http://adlnet.gov/expapi/verbs/scored"

TypeModule == "http://coursera.org/xapi/activity-types/module"

TypeVideo == "http://coursera.org/xapi/activity-types/video"

TypeQuiz == "http://coursera.org/xapi/activity-types/quiz"

TypeAssignment == "http://coursera.org/xapi/activity-types/assignment"

(***************************************************************************)
(* Bounds of the model                                                     *)
(***************************************************************************)
MaxProgressStmts == 3

MaxSessionStmts == 3

MaxStreakStmts == 5

MaxScoreStmts == 3

MaxQualityStmts == 2

MaxScoreRecords == 6

MaxAnomalies == 4

MaxCompletenessStmts == 5

(***************************************************************************)
(* Generic helpers                                                         *)
(***************************************************************************)
BoundedSeq(S, n) == UNION {[1..k -> S] : k \in 0..n}

\* Math.round(n / d), d > 0: floor(n/d + 1/2)
RoundDiv(n, d) == (2 * n + d) \div (2 * d)

MaxOf(S) == CHOOSE x \in S : \A y \in S : y <= x

MinOf(S) == CHOOSE x \in S : \A y \in S : x <= y

RECURSIVE SumSeq(_)
SumSeq(s) == IF s = <<>> THEN 0 ELSE Head(s) + SumSeq(Tail(s))

\* Array.prototype.sort(compare) with a numeric comparator key(a) - key(b) is
\* a stable ascending sort on the key; keys[i] is the key of element i.
\* InsertIdx puts index i after every index whose key is not greater.
RECURSIVE InsertIdx(_, _, _)
InsertIdx(i, sorted, keys) ==
    IF sorted = <<>> THEN <<i>>
    ELSE IF keys[Head(sorted)] > keys[i]
         THEN <<i>> \o sorted
         ELSE <<Head(sorted)>> \o InsertIdx(i, Tail(sorted), keys)

RECURSIVE SortIdx(_, _)
SortIdx(n, keys) ==
    IF n = 0 THEN <<>> ELSE InsertIdx(n, SortIdx(n - 1, keys), keys)

SortStableBy(s, keys) ==
    LET idx == SortIdx(Len(s), keys)
    IN [k \in 1..Len(s) |-> s[idx[k]]]

\* statements.sort((a, b) => new Date(a.timestamp) - new Date(b.timestamp))
SortByTimestamp(stmts) ==
    SortStableBy(stmts, [i \in 1..Len(stmts) |-> stmts[i].ts])

\* new Date(ts).toISOString().split('T')[0]
DateOf(ts) == ts \div DayMs

\* new Date(dateString): UTC midnight of the calendar date
DateMs(d) == d * DayMs

(***************************************************************************)
(* Statements                                                              *)
(***************************************************************************)
\* result.duration: absent, or an ISO 8601 text; form "PTnHnMnS" is PT followed
\* by optional whole-number H, M and S parts (an absent part is 0), "other" is
\* any text whose parts the pattern of parseDuration does not capture
NoDuration == [present |-> FALSE, form |-> "other", h |-> 0, m |-> 0, s |-> 0]

Duration(hh, mm, ss) == [present |-> TRUE, form |-> "PTnHnMnS", h |-> hh, m |-> mm, s |-> ss]

NoResult ==
    [present |-> FALSE, hasScore |-> FALSE, scaledMilli |-> 0, success |-> FALSE,
     duration |-> NoDuration]

\* a result without a score, e.g. { completion: true }
Unscored ==
    [present |-> TRUE, hasScore |-> FALSE, scaledMilli |-> 0, success |-> TRUE,
     duration |-> NoDuration]

Scored(milli, ok) ==
    [present |-> TRUE, hasScore |-> TRUE, scaledMilli |-> milli, success |-> ok,
     duration |-> NoDuration]

\* the result of a video interaction: { duration: "PT..." }
Watched(d) ==
    [present |-> TRUE, hasScore |-> FALSE, scaledMilli |-> 0, success |-> FALSE,
     duration |-> d]

Stmt(i, v, t, time, r) == [id |-> i, verb |-> v, type |-> t, ts |-> time, result |-> r]

\* the summary handed to detectAnomalies: data.scores.scores and data.timeline,
\* each possibly absent
EmptyData == [hasScores |-> FALSE, scores |-> <<>>, hasTimeline |-> FALSE, timeline |-> <<>>]

\* a statement as validateStatement reads it: which parts are present
WireStatement(a, v, o, t, sc) ==
    [actor |-> a, verb |-> v, object |-> o, hasTimestamp |-> t, score |-> sc]

NoScore ==
    [present |-> FALSE, hasScaled |-> FALSE, scaledMilli |-> 0,
     hasRaw |-> FALSE, raw |-> 0, hasMax |-> FALSE, max |-> 0]

\* the raw dashboard bundle of getDashboardData: the four statement
\* collections that createDashboardSummary reads
Bundle(m, q, a, v) ==
    [completed |-> m, quizzes |-> q, assignments |-> a, videoInteractions |-> v]

NoSummary == [present |-> FALSE]

NoError == "null"

\* useXAPIData before its first fetch: loading false, error null, lastFetch
\* null (0), the service configured; started counts the calls of fetchData
\* that went out and inFlight holds those not yet settled
XAPIIdle ==
    [ready |-> TRUE, loading |-> FALSE, error |-> NoError, lastFetch |-> 0,
     inFlight |-> {}, started |-> 0]

\* the hook and validateStatement take no part in this behaviour
HookIdle ==
    /\ statement = WireStatement("mbox", "ok", "ok", TRUE, NoScore)
    /\ rawData = [present |-> FALSE]
    /\ processedData = NoSummary
    /\ processingError = NoError
    /\ xapi = XAPIIdle

(***************************************************************************)
(* CourseDataProcessor.calculateProgress                                   *)
(***************************************************************************)
\* the statements.forEach loop: the two Sets and the moduleCompletions list
RECURSIVE ProgressLoop(_, _)
ProgressLoop(stmts, acc) ==
    IF stmts = <<>> THEN acc
    ELSE LET stmt == Head(stmts)
             isDone == stmt.verb = VerbCompleted
         IN ProgressLoop(Tail(stmts),
              [totalActivities |-> acc.totalActivities \cup {stmt.id},
               completedActivities |->
                   IF isDone THEN acc.completedActivities \cup {stmt.id}
                   ELSE acc.completedActivities,
               moduleCompletions |->
                   IF isDone /\ stmt.type = TypeModule
                   THEN Append(acc.moduleCompletions,
                               [id |-> stmt.id, completedAt |-> stmt.ts])
                   ELSE acc.moduleCompletions])

\* moduleCompletions.sort((a, b) => b.completedAt - a.completedAt)
SortModuleCompletions(mc) ==
    SortStableBy(mc, [i \in 1..Len(mc) |-> 0 - mc[i].completedAt])

PercentageFloor(completed, total) ==
    IF total > 0 THEN (completed * 100) \div total ELSE 0

\* total > 0 ? Math.round((completed / total) * 100) : 0
Percentage(completed, total) ==
    IF total > 0 THEN RoundDiv(completed * 100, total) ELSE 0

calculateProgress(stmts) ==
    LET acc == ProgressLoop(stmts, [totalActivities |-> {},
                                    completedActivities |-> {},
                                    moduleCompletions |-> <<>>])
        completed == Cardinality(acc.completedActivities)
        total == Cardinality(acc.totalActivities)
    IN [completed |-> completed,
        total |-> total,
        percentage |-> Percentage(completed, total),
        remaining |-> total - completed,
        moduleCompletions |-> SortModuleCompletions(acc.moduleCompletions),
        lastActivity |-> IF Len(stmts) > 0 THEN <<stmts[1].ts>> ELSE <<>>]

CalculateProgress ==
    /\ pc = "start"
    /\ ret' = calculateProgress(statements)
    /\ pc' = "calculateProgress"
    /\ UNCHANGED <<statements, now, data, anomalies, hookVars>>

ProgressIds == {"a1", "a2", "a3"}

ProgressStmts ==
    {Stmt(i, v, t, 0, NoResult) :
        i \in ProgressIds, v \in {VerbCompleted, VerbExperienced},
        t \in {TypeModule, TypeQuiz}}

\* spec.md section 8: 10 statements, 6 completions over 8 distinct activities
ScenarioProgress ==
    << Stmt("a1", VerbCompleted, TypeModule, 0, NoResult),
       Stmt("a2", VerbCompleted, TypeModule, 0, NoResult),
       Stmt("a3", VerbCompleted, TypeQuiz, 0, NoResult),
       Stmt("a4", VerbCompleted, TypeQuiz, 0, NoResult),
       Stmt("a5", VerbCompleted, TypeModule, 0, NoResult),
       Stmt("a6", VerbCompleted, TypeModule, 0, NoResult),
       Stmt("a7", VerbExperienced, TypeVideo, 0, NoResult),
       Stmt("a8", VerbExperienced, TypeVideo, 0, NoResult),
       Stmt("a1", VerbExperienced, TypeModule, 0, NoResult),
       Stmt("a7", VerbExperienced, TypeVideo, 0, NoResult) >>

InitProgress ==
    /\ statements \in BoundedSeq(ProgressStmts, MaxProgressStmts) \cup {ScenarioProgress}
    /\ now = 0
    /\ data = EmptyData
    /\ anomalies = <<>>
    /\ pc = "start"
    /\ ret = <<>>
    /\ HookIdle

NextProgress == CalculateProgress

SpecProgress == InitProgress /\ [][NextProgress]_vars

\* C1: after calculateProgress, total is the number of distinct object ids,
\* completed the number of distinct object ids with a completion statement,
\* percentage is completed/total*100 rounded to the nearest integer (0 when
\* total = 0) and lies in 0..100, completed + remaining = total and
\* completed <= total.
DistinctIds(stmts) == {stmts[i].id : i \in 1..Len(stmts)}

CompletedIds(stmts) ==
    {stmts[i].id : i \in {j \in 1..Len(stmts) : stmts[j].verb = VerbCompleted}}

ExtendsSessionStrict(timeDiff) == timeDiff < SessionGapMs

\* if (timeDiff <= 3600000)
ExtendsSession(timeDiff) == timeDiff <= SessionGapMs

CloseSessionMillis(session) ==
    [start |-> session.start, end |-> session.end,
     activities |-> session.activities,
     duration |-> [num |-> session.end - session.start, den |-> 1]]

\* currentSession.duration = (currentSession.end - currentSession.start) / 1000
\* (seconds, kept as the fraction num/den)
CloseSession(session) ==
    [start |-> session.start, end |-> session.end,
     activities |-> session.activities,
     duration |-> [num |-> session.end - session.start, den |-> 1000]]

\* the for loop over sortedStatements[1..], then "Add the last session"
RECURSIVE SessionLoop(_, _, _)
SessionLoop(rest, sessions, currentSession) ==
    IF rest = <<>> THEN Append(sessions, CloseSession(currentSession))
    ELSE LET currentTime == Head(rest).ts
             timeDiff == currentTime - currentSession.end
         IN IF ExtendsSession(timeDiff)
            THEN SessionLoop(Tail(rest), sessions,
                     [start |-> currentSession.start, end |-> currentTime,
                      activities |-> currentSession.activities + 1])
            ELSE SessionLoop(Tail(rest),
                     Append(sessions, CloseSession(currentSession)),
                     [start |-> currentTime, end |-> currentTime, activities |-> 1])

calculateStudySessions(stmts) ==
    IF Len(stmts) = 0 THEN <<>>
    ELSE LET sortedStatements == SortByTimestamp(stmts)
         IN SessionLoop(Tail(sortedStatements), <<>>,
                [start |-> sortedStatements[1].ts, end |-> sortedStatements[1].ts,
                 activities |-> 1])

\* statements.sort(...) sorts the caller's array in place
CalculateStudySessions ==
    /\ pc = "start"
    /\ ret' = calculateStudySessions(statements)
    /\ statements' = IF Len(statements) = 0 THEN statements
                     ELSE SortByTimestamp(statements)
    /\ pc' = "calculateStudySessions"
    /\ UNCHANGED <<now, data, anomalies, hookVars>>

SessionTimes ==
    {0, SessionGapMs, SessionGapMs + 1, 2 * SessionGapMs, 2 * SessionGapMs + 1}

SessionStmts == {Stmt("a1", VerbExperienced, TypeVideo, t, NoResult) : t \in SessionTimes}

InitSessions ==
    /\ statements \in BoundedSeq(SessionStmts, MaxSessionStmts)
    /\ now = 0
    /\ data = EmptyData
    /\ anomalies = <<>>
    /\ pc = "start"
    /\ ret = <<>>
    /\ HookIdle

NextSessions == CalculateStudySessions

SpecSessions == InitSessions /\ [][NextSessions]_vars

TimesOf(stmts) == {stmts[i].ts : i \in 1..Len(stmts)}

\* two timestamps of the input with no statement strictly between them
TimeAdjacent(stmts, t1, t2) ==
    /\ t1 \in TimesOf(stmts) /\ t2 \in TimesOf(stmts)
    /\ t1 < t2
    /\ ~ \E t \in TimesOf(stmts) : t1 < t /\ t < t2

InSameSession(sessions, t1, t2) ==
    \E k \in 1..Len(sessions) : sessions[k].start <= t1 /\ t2 <= sessions[k].end

RECURSIVE SortedDates(_)
SortedDates(S) ==
    IF S = {} THEN <<>>
    ELSE LET d == MinOf(S) IN <<d>> \o SortedDates(S \ {d})

ActivityDatesRepeated(stmts) ==
    LET dates == [i \in 1..Len(stmts) |-> DateOf(stmts[i].ts)]
    IN SortStableBy(dates, dates)

ActivityDates(stmts) == SortedDates({DateOf(stmts[i].ts) : i \in 1..Len(stmts)})

\* dayDiff === 1 with dayDiff = (currentDate - prevDate) / (1000*60*60*24)
IsNextDay(prevDate, currentDate) == DateMs(currentDate) - DateMs(prevDate) = DayMs

FinalLongestDropped(longestStreak, streakCount) == longestStreak

\* longestStreak = Math.max(longestStreak, streakCount) after the loop
FinalLongest(longestStreak, streakCount) ==
    IF streakCount > longestStreak THEN streakCount ELSE longestStreak

\* the first for loop, i = 1 .. activityDates.length - 1 (0-based), here
\* i = 2 .. Len(activityDates)
RECURSIVE LongestLoop(_, _, _, _)
LongestLoop(activityDates, i, longestStreak, streakCount) ==
    IF i > Len(activityDates) THEN FinalLongest(longestStreak, streakCount)
    ELSE IF IsNextDay(activityDates[i - 1], activityDates[i])
         THEN LongestLoop(activityDates, i + 1, longestStreak, streakCount + 1)
         ELSE LongestLoop(activityDates, i + 1,
                  IF streakCount > longestStreak THEN streakCount ELSE longestStreak,
                  1)

RecentEnoughStrict(todayDate, lastActivityDate) ==
    DateMs(todayDate) - DateMs(lastActivityDate) < DayMs

RecentEnoughLoose(todayDate, lastActivityDate) ==
    DateMs(todayDate) - DateMs(lastActivityDate) <= 2 * DayMs

\* daysSinceLastActivity <= 1
RecentEnough(todayDate, lastActivityDate) ==
    DateMs(todayDate) - DateMs(lastActivityDate) <= DayMs

\* the backward for loop, i = activityDates.length - 1 down to 1 (0-based),
\* with its break
RECURSIVE BackwardLoop(_, _, _)
BackwardLoop(activityDates, i, currentStreak) ==
    IF i <= 1 THEN currentStreak
    ELSE IF IsNextDay(activityDates[i - 1], activityDates[i])
         THEN BackwardLoop(activityDates, i - 1, currentStreak + 1)
         ELSE currentStreak

IncludeLastDayDropped(currentStreak) == currentStreak

\* currentStreak++ // Include the last activity day
IncludeLastDay(currentStreak) == currentStreak + 1

calculateLearningStreak(stmts, nowMs) ==
    IF Len(stmts) = 0 THEN [current |-> 0, longest |-> 0, totalDays |-> 0]
    ELSE LET activityDates == ActivityDates(stmts)
             today == DateOf(nowMs)
             lastActivityDate == activityDates[Len(activityDates)]
         IN [current |->
                IF RecentEnough(today, lastActivityDate)
                THEN IncludeLastDay(BackwardLoop(activityDates, Len(activityDates), 0))
                ELSE 0,
             longest |-> LongestLoop(activityDates, 2, 0, 1),
             totalDays |-> Len(activityDates)]

CalculateLearningStreak ==
    /\ pc = "start"
    /\ ret' = calculateLearningStreak(statements, now)
    /\ pc' = "calculateLearningStreak"
    /\ UNCHANGED <<statements, now, data, anomalies, hookVars>>

\* activity on days 1, 2, 3, 4, 5 and 10, at various times of the day
StreakTimes ==
    {DayMs, 2 * DayMs + 1, 3 * DayMs + (DayMs - 1), 4 * DayMs + 43200000,
     5 * DayMs, 10 * DayMs + 43200000}

\* "now" on day 2 (before the latest activity), 5, 6, 11 and 12
StreakNows ==
    {2 * DayMs + 43200000, 5 * DayMs, 6 * DayMs + (DayMs - 1), 11 * DayMs + 1,
     12 * DayMs}

StreakStmts == {Stmt("a1", VerbExperienced, TypeVideo, t, NoResult) : t \in StreakTimes}

InitStreak ==
    /\ statements \in BoundedSeq(StreakStmts, MaxStreakStmts)
    /\ now \in StreakNows
    /\ data = EmptyData
    /\ anomalies = <<>>
    /\ pc = "start"
    /\ ret = <<>>
    /\ HookIdle

NextStreak == CalculateLearningStreak

SpecStreak == InitStreak /\ [][NextStreak]_vars

\* the distinct UTC calendar dates of the statements, as day numbers
DatesOf(stmts) == {stmts[i].ts \div 86400000 : i \in 1..Len(stmts)}

\* n consecutive dates ending at date d all have activity
RunEndsAt(D, d, n) == \A k \in 0..(n - 1) : (d - k) \in D

\* C3: for a non-empty statement list, longest is the length of the longest
\* run of distinct calendar dates each exactly one day after the previous
\* one; the formula does not mention now and is checked for every now.
C3_LongestStreak ==
    (pc = "calculateLearningStreak" /\ Len(statements) > 0) =>
        LET D == DatesOf(statements)
        IN /\ \E d \in D : RunEndsAt(D, d, ret.longest)
           /\ ~ \E d \in D : RunEndsAt(D, d, ret.longest + 1)
           /\ ret.longest >= 1

C3_Witness ==
    /\ pc = "calculateLearningStreak"
    /\ DatesOf(statements) = {1, 2, 3, 10}
    /\ ret.longest = 3

\* C4 as stated: activity on days 1, 2, 3 and 10 with now on day 11 gives
\* currentStreak = 0.
C4_Original ==
    (pc = "calculateLearningStreak" /\ DatesOf(statements) = {1, 2, 3, 10}
        /\ now \div 86400000 = 11) => ret.current = 0

\* C4 amended: activity on days 1, 2, 3 and 10 with now on day 11 gives
\* currentStreak = 1 (day 10 is yesterday and is a run of one day); with now
\* on day 12 it gives 0.
C4_Amended ==
    (pc = "calculateLearningStreak" /\ DatesOf(statements) = {1, 2, 3, 10}) =>
        /\ now \div 86400000 = 11 => ret.current = 1
        /\ now \div 86400000 = 12 => ret.current = 0

C4_Witness ==
    /\ pc = "calculateLearningStreak"
    /\ DatesOf(statements) = {1, 2, 3, 10}
    /\ now \div 86400000 = 11
    /\ ret.current = 1

\* C5: when the last activity date is the date of now or the day before,
\* currentStreak is the length of the maximal run of consecutive dates that
\* ends at the last activity date, that date included; k consecutive days
\* ending today give k.
C5_CurrentStreakRun ==
    (pc = "calculateLearningStreak" /\ Len(statements) > 0) =>
        LET D == DatesOf(statements)
            last == MaxOf(D)
            today == now \div 86400000
        IN (today - last \in {0, 1}) =>
              /\ ret.current >= 1
              /\ RunEndsAt(D, last, ret.current)
              /\ ~ RunEndsAt(D, last, ret.current + 1)
              /\ (today = last /\ D = (last - Cardinality(D) + 1)..last)
                    => ret.current = Cardinality(D)

C5_Witness ==
    /\ pc = "calculateLearningStreak"
    /\ DatesOf(statements) = 1..5
    /\ now \div 86400000 = 5
    /\ ret.current = 5

\* C6: currentStreak is non-zero only when the most recent activity date is
\* at most 1 day before the date of now; when it is 2 or more days before
\* now, or there is no statement, currentStreak = 0.
C6_CurrentStreakRecent ==
    pc = "calculateLearningStreak" =>
        LET D == DatesOf(statements)
            today == now \div 86400000
        IN /\ ret.current # 0 => (D # {} /\ today - MaxOf(D) <= 1)
           /\ (D = {} \/ today - MaxOf(D) >= 2) => ret.current = 0

C6_Witness ==
    /\ pc = "calculateLearningStreak"
    /\ DatesOf(statements) = {4, 5}
    /\ now \div 86400000 = 11
    /\ ret.current = 0 /\ ret.longest = 2

(***************************************************************************)
(* CourseDataProcessor.aggregateScores, calculateScoreTrend and            *)
(* calculateScoreDistribution                                              *)
(***************************************************************************)
\* JavaScript numbers that may be non-finite: kind is "num", "NaN",
\* "Infinity" or "-Infinity"
Num(n) == [kind |-> "num", val |-> n]

NaN == [kind |-> "NaN", val |-> 0]

PosInfinity == [kind |-> "Infinity", val |-> 0]

NegInfinity == [kind |-> "-Infinity", val |-> 0]

Undefined == [undefined |-> TRUE]

\* Math.round(stmt.result.score.scaled * 100), scaled in thousandths
ScorePercent(stmt) == RoundDiv(stmt.result.scaledMilli, 10)

\* scoreStatements.filter(stmt => stmt.result?.score).map(...)
RECURSIVE ScoreRecords(_)
ScoreRecords(stmts) ==
    IF stmts = <<>> THEN <<>>
    ELSE LET stmt == Head(stmts)
         IN IF stmt.result.present /\ stmt.result.hasScore
            THEN <<[activityId |-> stmt.id,
                    score |-> ScorePercent(stmt),
                    success |-> stmt.result.success,
                    timestamp |-> stmt.ts,
                    attempts |-> 1]>> \o ScoreRecords(Tail(stmts))
            ELSE ScoreRecords(Tail(stmts))

\* the keys of activityGroups in insertion order (first occurrence)
RECURSIVE GroupKeys(_, _)
GroupKeys(scores, seen) ==
    IF scores = <<>> THEN <<>>
    ELSE IF Head(scores).activityId \in seen
         THEN GroupKeys(Tail(scores), seen)
         ELSE <<Head(scores).activityId>>
                  \o GroupKeys(Tail(scores), seen \cup {Head(scores).activityId})

\* activityGroups[key]: the records of one activity in input order
GroupOf(scores, key) == SelectSeq(scores, LAMBDA r : r.activityId = key)

\* group.sort((a, b) => b.timestamp - a.timestamp)
SortNewestFirst(records) ==
    SortStableBy(records, [i \in 1..Len(records) |-> 0 - records[i].timestamp])

\* scores.sort((a, b) => a.timestamp - b.timestamp)
SortOldestFirst(records) ==
    SortStableBy(records, [i \in 1..Len(records) |-> records[i].timestamp])

ProcessGroupFirstAttempt(group) ==
    LET latest == group[1]
    IN [activityId |-> latest.activityId,
        score |-> latest.score,
        success |-> latest.success,
        timestamp |-> latest.timestamp,
        attempts |-> Len(group),
        bestScore |-> MaxOf({group[i].score : i \in 1..Len(group)}),
        firstAttempt |-> MinOf({group[i].timestamp : i \in 1..Len(group)})]

\* the body of Object.values(activityGroups).map(group => ...)
ProcessGroup(group) ==
    LET latest == SortNewestFirst(group)[1]
    IN [activityId |-> latest.activityId,
        score |-> latest.score,
        success |-> latest.success,
        timestamp |-> latest.timestamp,
        attempts |-> Len(group),
        bestScore |-> MaxOf({group[i].score : i \in 1..Len(group)}),
        firstAttempt |-> MinOf({group[i].timestamp : i \in 1..Len(group)})]

ProcessedScores(scores) ==
    LET keys == GroupKeys(scores, {})
    IN [k \in 1..Len(keys) |-> ProcessGroup(GroupOf(scores, keys[k]))]

ScoreValues(records) == [i \in 1..Len(records) |-> records[i].score]

ExceedsThresholdInclusive(difference, threshold) == difference >= threshold

\* difference > 5, and difference < -5 for the negated difference
ExceedsThreshold(difference, threshold) == difference > threshold

\* calculateScoreTrend(scores); the halves are non-empty when
\* scores.length >= 2, and secondAvg - firstAvg is compared with 5 after
\* multiplying by both lengths
calculateScoreTrend(scores) ==
    IF Len(scores) < 2 THEN "stable"
    ELSE LET sortedByTime == SortOldestFirst(scores)
             midPoint == Len(sortedByTime) \div 2
             firstHalf == SubSeq(sortedByTime, 1, midPoint)
             secondHalf == SubSeq(sortedByTime, midPoint + 1, Len(sortedByTime))
             firstSum == SumSeq(ScoreValues(firstHalf))
             secondSum == SumSeq(ScoreValues(secondHalf))
             scaledDifference == secondSum * Len(firstHalf) - firstSum * Len(secondHalf)
             scaledFive == 5 * Len(firstHalf) * Len(secondHalf)
         IN IF ExceedsThreshold(scaledDifference, scaledFive) THEN "improving"
            ELSE IF ExceedsThreshold(0 - scaledDifference, scaledFive) THEN "declining"
            ELSE "stable"

\* calculateScoreDistribution(scoreValues)
CountIn(scoreValues, lo, hi) ==
    Cardinality({i \in 1..Len(scoreValues) : lo <= scoreValues[i] /\ scoreValues[i] < hi})

calculateScoreDistribution(scoreValues) ==
    [A |-> Cardinality({i \in 1..Len(scoreValues) : scoreValues[i] >= 90}),
     B |-> CountIn(scoreValues, 80, 90),
     C |-> CountIn(scoreValues, 70, 80),
     D |-> CountIn(scoreValues, 60, 70),
     F |-> Cardinality({i \in 1..Len(scoreValues) : scoreValues[i] < 60})]

TrendInputAllAttempts(scores, processedScores) == scores

\* the argument of this.calculateScoreTrend(processedScores)
TrendInput(scores, processedScores) == processedScores

\* calculateScoreTrend sorts processedScores in place when it has 2 or more
\* elements; the array is then sorted newest-first for the result
ScoresAfterTrend(processedScores) ==
    IF Len(processedScores) < 2 THEN processedScores
    ELSE SortOldestFirst(processedScores)

aggregateScores(scoreStatements) ==
    IF Len(scoreStatements) = 0
    THEN [scores |-> <<>>, average |-> Num(0), highest |-> Num(0),
          lowest |-> Num(0), totalAttempts |-> 0, passRate |-> Num(0),
          trend |-> "stable", distribution |-> Undefined]
    ELSE LET scores == ScoreRecords(scoreStatements)
             processedScores == ProcessedScores(scores)
             scoreValues == ScoreValues(processedScores)
             n == Len(processedScores)
             passCount == Cardinality({i \in 1..n : processedScores[i].success})
         IN [scores |-> SortNewestFirst(ScoresAfterTrend(processedScores)),
             \* Math.round(sum / length): 0 / 0 is NaN
             average |-> IF n = 0 THEN NaN
                         ELSE Num(RoundDiv(SumSeq(scoreValues), n)),
             \* Math.max() is -Infinity, Math.min() is Infinity
             highest |-> IF n = 0 THEN NegInfinity
                         ELSE Num(MaxOf({scoreValues[i] : i \in 1..n})),
             lowest |-> IF n = 0 THEN PosInfinity
                        ELSE Num(MinOf({scoreValues[i] : i \in 1..n})),
             totalAttempts |-> Len(scores),
             passRate |-> IF n = 0 THEN NaN
                          ELSE Num(RoundDiv(passCount * 100, n)),
             trend |-> calculateScoreTrend(TrendInput(scores, processedScores)),
             distribution |-> calculateScoreDistribution(scoreValues)]

AggregateScores ==
    /\ pc = "start"
    /\ ret' = aggregateScores(statements)
    /\ pc' = "aggregateScores"
    /\ UNCHANGED <<statements, now, data, anomalies, hookVars>>

ScoreIds == {"q1", "q2", "q3"}

ScoreTimes == {1000, 2000}

ScoreResults == {NoResult, Scored(400, FALSE), Scored(855, TRUE), Scored(1000, TRUE)}

ScoreStmts ==
    {Stmt(i, VerbScored, TypeQuiz, t, r) :
        i \in ScoreIds, t \in ScoreTimes, r \in ScoreResults}

InitScores ==
    /\ statements \in BoundedSeq(ScoreStmts, MaxScoreStmts)
    /\ now = 0
    /\ data = EmptyData
    /\ anomalies = <<>>
    /\ pc = "start"
    /\ ret = <<>>
    /\ HookIdle

NextScores == AggregateScores

SpecScores == InitScores /\ [][NextScores]_vars

\* the activities that have at least one score-bearing statement: one
\* canonical record each
ScoredActivities(stmts) ==
    {stmts[i].id : i \in {j \in 1..Len(stmts) : stmts[j].result.hasScore}}

ScoredAttempts(stmts) == {j \in 1..Len(stmts) : stmts[j].result.hasScore}

\* C7: aggregateScores returns trend = 'stable' whenever the input yields
\* fewer than 2 canonical score records, however many attempts it has.
C7_TrendStableBelowTwo ==
    (pc = "aggregateScores" /\ Cardinality(ScoredActivities(statements)) < 2) =>
        ret.trend = "stable"

\* one activity, two attempts whose scores differ by more than 5 points
C7_Witness ==
    /\ pc = "aggregateScores"
    /\ Cardinality(ScoredActivities(statements)) = 1
    /\ Cardinality(ScoredAttempts(statements)) >= 2
    /\ \E i \in ScoredAttempts(statements), j \in ScoredAttempts(statements) :
           /\ statements[i].ts < statements[j].ts
           /\ statements[i].result.scaledMilli = 400
           /\ statements[j].result.scaledMilli = 1000
    /\ Len(ret.scores) = 1 /\ ret.scores[1].attempts >= 2
    /\ ret.trend = "stable"

(***************************************************************************)
(* DataAggregator.assessDataQuality                                        *)
(***************************************************************************)
\* Milliseconds of age that cost one point of freshness: with
\* daysSinceLatest = age / DayMs, (daysSinceLatest - 7) * 10 is
\* (age - 7 * DayMs) / MsPerPoint.  Freshness and completeness are kept as
\* exact fractions num/den; freshness always has den = MsPerPoint.
MsPerPoint == DayMs \div PenaltyPerDay

FreshnessUnfloored(age) ==
    IF age > FreshDays * DayMs
    THEN 100 * MsPerPoint - (age - FreshDays * DayMs)
    ELSE 100 * MsPerPoint

\* if (daysSinceLatest > 7) freshness = Math.max(0, 100 - (daysSinceLatest - 7) * 10)
\* else the initial 100; the result is the numerator over MsPerPoint
Freshness(age) ==
    IF age > FreshDays * DayMs
    THEN LET penalised == 100 * MsPerPoint - (age - FreshDays * DayMs)
         IN IF penalised > 0 THEN penalised ELSE 0
    ELSE 100 * MsPerPoint

\* Math.max(...statements.map(s => new Date(s.timestamp)))
LatestActivity(stmts) == MaxOf({stmts[i].ts : i \in 1..Len(stmts)})

\* statements.filter(s => s.result).length
WithResults(stmts) == Cardinality({i \in 1..Len(stmts) : stmts[i].result.present})

CompletenessExact(stmts) ==
    LET n == Len(stmts)
        k == WithResults(stmts)
    IN IF n = 0 THEN [num |-> 0, den |-> 1]
       ELSE IF k = n THEN [num |-> 100, den |-> 1]
       ELSE [num |-> k * 100, den |-> n]

\* resultCompleteness < 80 ? resultCompleteness : 100, as a fraction
Completeness(stmts) ==
    LET n == Len(stmts)
        k == WithResults(stmts)
    IN IF n = 0 THEN [num |-> 0, den |-> 1]
       ELSE IF k * 100 < 80 * n THEN [num |-> k * 100, den |-> n]
       ELSE [num |-> 100, den |-> 1]

\* completeness + freshness >= t, for an integer t: with
\* freshness = fq + fr / MsPerPoint (0 <= fr < MsPerPoint) this is
\* b / den + fr / MsPerPoint >= 0 for b = num + (fq - t) * den
SumAtLeast(completeness, freshness, t) ==
    LET fq == freshness \div MsPerPoint
        fr == freshness % MsPerPoint
        b == completeness.num + (fq - t) * completeness.den
    IN IF b >= 0 THEN TRUE
       ELSE IF b <= 0 - completeness.den THEN FALSE
       ELSE b * MsPerPoint + fr * completeness.den >= 0

\* Math.round((quality.completeness + quality.freshness) / 2): the integer
\* s with 2s - 1 <= completeness + freshness < 2s + 1
QualityScore(completeness, freshness) ==
    CHOOSE sc \in (0 - 100)..100 :
        /\ SumAtLeast(completeness, freshness, 2 * sc - 1)
        /\ ~ SumAtLeast(completeness, freshness, 2 * sc + 1)

assessDataQuality(stmts, nowMs) ==
    LET hasData == Len(stmts) > 0
        age == IF hasData THEN nowMs - LatestActivity(stmts) ELSE 0
        freshness == IF hasData THEN Freshness(age) ELSE 0
        completeness == Completeness(stmts)
        freshIssues ==
            IF ~ hasData THEN <<"No activity data available">>
            ELSE IF age > FreshDays * DayMs THEN <<"Data is more than a week old">>
            ELSE <<>>
        resultIssues ==
            IF completeness # [num |-> 100, den |-> 1]
            THEN <<"Some activities missing result data">>
            ELSE <<>>
    IN [score |-> QualityScore(completeness, freshness),
        issues |-> freshIssues \o resultIssues,
        completeness |-> completeness,
        freshness |-> [num |-> freshness, den |-> MsPerPoint]]

AssessDataQuality ==
    /\ pc = "start"
    /\ ret' = assessDataQuality(statements, now)
    /\ pc' = "assessDataQuality"
    /\ UNCHANGED <<statements, now, data, anomalies, hookVars>>

QualityNow == 18 * DayMs

\* ages of 0, exactly 7 days, 7 days + 1 ms, 8 days, 8.5 days, 17 days and
\* 17.5 days, and a statement dated after now
QualityAges ==
    {0, 7 * DayMs, 7 * DayMs + 1, 8 * DayMs, 8 * DayMs + 43200000, 17 * DayMs,
     17 * DayMs + 43200000, 0 - 1000}

QualityStmts ==
    {Stmt("a1", VerbExperienced, TypeVideo, QualityNow - age, r) :
        age \in QualityAges, r \in {NoResult, Scored(1000, TRUE)}}

InitQuality ==
    /\ statements \in BoundedSeq(QualityStmts, MaxQualityStmts)
    /\ now = QualityNow
    /\ data = EmptyData
    /\ anomalies = <<>>
    /\ pc = "start"
    /\ ret = <<>>
    /\ HookIdle

NextQuality == AssessDataQuality

SpecQuality == InitQuality /\ [][NextQuality]_vars

\* C8: freshness (num / 8640000, 8640000 ms of age costing one point) is 0
\* without statements, 100 when the latest statement is at most 7 days
\* (604800000 ms) old, max(0, 100 - 10 * (days since latest - 7)) beyond
\* 7 days, and always within [0, 100].
C8_Freshness ==
    pc = "assessDataQuality" =>
        LET f == ret.freshness.num
            times == {statements[i].ts : i \in 1..Len(statements)}
        IN /\ ret.freshness.den = 8640000
           /\ 0 <= f /\ f <= 100 * 8640000
           /\ times = {} => f = 0
           /\ times # {} =>
                 LET age == now - MaxOf(times)
                 IN /\ age <= 604800000 => f = 100 * 8640000
                    /\ age > 604800000 =>
                          \/ f = 100 * 8640000 - (age - 604800000) /\ f >= 0
                          \/ f = 0 /\ 100 * 8640000 - (age - 604800000) <= 0

\* latest activity 8.5 days ago: freshness 85; another statement is older
C8_Witness ==
    /\ pc = "assessDataQuality"
    /\ Len(statements) = 2
    /\ now - MaxOf({statements[i].ts : i \in 1..Len(statements)}) = 734400000
    /\ ret.freshness.num = 85 * 8640000

(***************************************************************************)
(* DataValidator.calculateRiskLevel and DataValidator.detectAnomalies      *)
(***************************************************************************)
\* severityCounts[severity] after the reduce
SeverityCount(anoms, severity) ==
    Cardinality({i \in 1..Len(anoms) : anoms[i].severity = severity})

MediumEscalatesAboveTwo(mediumCount) == mediumCount > 2

\* if (severityCounts.medium > 1) return 'high'
MediumEscalates(mediumCount) == mediumCount > 1

calculateRiskLevel(anoms) ==
    IF Len(anoms) = 0 THEN "none"
    ELSE IF SeverityCount(anoms, "high") > 0 THEN "high"
    ELSE IF MediumEscalates(SeverityCount(anoms, "medium")) THEN "high"
    ELSE IF SeverityCount(anoms, "medium") > 0 THEN "medium"
    ELSE "low"

CalculateRiskLevel ==
    /\ pc = "start"
    /\ ret' = calculateRiskLevel(anomalies)
    /\ pc' = "calculateRiskLevel"
    /\ UNCHANGED <<statements, now, data, anomalies, hookVars>>

SuspiciousScoresAboveSix(scores) ==
    /\ Len(scores) > SuspiciousMinCount + 1
    /\ \A i \in 1..Len(scores) : scores[i] = PerfectScore

\* scores.length > 5 && scores.every(s => s === 100)
SuspiciousScores(scores) ==
    /\ Len(scores) > SuspiciousMinCount
    /\ \A i \in 1..Len(scores) : scores[i] = PerfectScore

\* sortedScores.length > 1 && max - min > 50
LargeImprovement(scores) ==
    /\ Len(scores) > 1
    /\ LET values == {scores[i] : i \in 1..Len(scores)}
       IN MaxOf(values) - MinOf(values) > 50

\* maxActivities > avgActivities * 5; with an empty timeline the comparison
\* is -Infinity > NaN, false
ActivitySpike(activities) ==
    /\ Len(activities) > 0
    /\ MaxOf({activities[i] : i \in 1..Len(activities)}) * Len(activities)
          > SumSeq(activities) * 5

detectAnomalies(d) ==
    LET scores == [i \in 1..Len(d.scores) |-> d.scores[i].score]
        activities == [i \in 1..Len(d.timeline) |-> d.timeline[i].totalActivities]
        found ==
            (IF d.hasScores /\ SuspiciousScores(scores)
             THEN <<[type |-> "suspicious_scores", severity |-> "medium"]>>
             ELSE <<>>)
            \o (IF d.hasScores /\ LargeImprovement(scores)
                THEN <<[type |-> "large_improvement", severity |-> "low"]>>
                ELSE <<>>)
            \o (IF d.hasTimeline /\ ActivitySpike(activities)
                THEN <<[type |-> "activity_spike", severity |-> "low"]>>
                ELSE <<>>)
    IN [hasAnomalies |-> Len(found) > 0,
        anomalies |-> found,
        riskLevel |-> calculateRiskLevel(found)]

DetectAnomalies ==
    /\ pc = "start"
    /\ ret' = detectAnomalies(data)
    /\ pc' = "detectAnomalies"
    /\ UNCHANGED <<statements, now, data, anomalies, hookVars>>

AnomalyKinds ==
    {[type |-> "suspicious_scores", severity |-> "medium"],
     [type |-> "large_improvement", severity |-> "low"],
     [type |-> "activity_spike", severity |-> "low"],
     [type |-> "other", severity |-> "high"]}

InitRisk ==
    /\ statements = <<>>
    /\ now = 0
    /\ data = EmptyData
    /\ anomalies \in BoundedSeq(AnomalyKinds, MaxAnomalies)
    /\ pc = "start"
    /\ ret = <<>>
    /\ HookIdle

NextRisk == CalculateRiskLevel

SpecRisk == InitRisk /\ [][NextRisk]_vars

AnomalyScoreRecords == {[score |-> 100], [score |-> 40]}

DayBucket(n) == [totalActivities |-> n]

AnomalyTimelines ==
    {<<>>, <<DayBucket(3)>>,
     <<DayBucket(1), DayBucket(1), DayBucket(1), DayBucket(1), DayBucket(1),
       DayBucket(1), DayBucket(20)>>}

InitAnomalies ==
    /\ statements = <<>>
    /\ now = 0
    /\ data \in [hasScores : BOOLEAN,
                 scores : BoundedSeq(AnomalyScoreRecords, MaxScoreRecords),
                 hasTimeline : BOOLEAN,
                 timeline : AnomalyTimelines]
    /\ anomalies = <<>>
    /\ pc = "start"
    /\ ret = <<>>
    /\ HookIdle

NextAnomalies == DetectAnomalies

SpecAnomalies == InitAnomalies /\ [][NextAnomalies]_vars

AllPerfect(d) == \A i \in 1..Len(d.scores) : d.scores[i].score = 100

HasSuspicious(report) ==
    \E i \in 1..Len(report.anomalies) :
        /\ report.anomalies[i].type = "suspicious_scores"
        /\ report.anomalies[i].severity = "medium"

\* C9 as stated: with at least 5 score records, all equal to 100, the
\* report holds a medium-severity 'suspicious_scores' anomaly and the risk
\* level is 'medium'.
C9_Original ==
    (pc = "detectAnomalies" /\ data.hasScores /\ Len(data.scores) >= 5
        /\ AllPerfect(data)) =>
        (HasSuspicious(ret) /\ ret.riskLevel = "medium")

\* C9 amended: with more than 5 (at least 6) score records, all equal to
\* 100, the report holds a medium-severity 'suspicious_scores' anomaly and
\* the risk level is 'medium'; with exactly 5 there is no such anomaly.
C9_Amended ==
    (pc = "detectAnomalies" /\ data.hasScores /\ AllPerfect(data)) =>
        /\ Len(data.scores) >= 6 => (HasSuspicious(ret) /\ ret.riskLevel = "medium")
        /\ Len(data.scores) = 5 => ~ HasSuspicious(ret)

C9_Witness ==
    /\ pc = "detectAnomalies"
    /\ data.hasScores /\ Len(data.scores) = 6 /\ AllPerfect(data)
    /\ HasSuspicious(ret) /\ ret.riskLevel = "medium"

HighCount(anoms) == Cardinality({i \in 1..Len(anoms) : anoms[i].severity = "high"})

MediumCount(anoms) == Cardinality({i \in 1..Len(anoms) : anoms[i].severity = "medium"})

\* C10: calculateRiskLevel is 'high' iff there is a high-severity anomaly or
\* at least 2 medium ones, 'medium' iff exactly 1 medium and no high,
\* 'low' iff the list is non-empty and all low, 'none' iff it is empty.
C10_RiskLevel ==
    pc = "calculateRiskLevel" =>
        /\ ret = "high" <=> (HighCount(anomalies) >= 1 \/ MediumCount(anomalies) >= 2)
        /\ ret = "medium" <=> (HighCount(anomalies) = 0 /\ MediumCount(anomalies) = 1)
        /\ ret = "low" <=>
              /\ Len(anomalies) > 0
              /\ \A i \in 1..Len(anomalies) : anomalies[i].severity = "low"
        /\ ret = "none" <=> Len(anomalies) = 0

\* two medium anomalies and no high one escalate to 'high'
C10_Witness ==
    /\ pc = "calculateRiskLevel"
    /\ HighCount(anomalies) = 0 /\ MediumCount(anomalies) = 2
    /\ ret = "high"

(***************************************************************************)
(* aggregateScores on inputs without scores, and the score distribution    *)
(***************************************************************************)
\* C12 as stated: whenever no statement of the input carries result.score
\* (the empty list, or a non-empty list of score-less statements),
\* aggregateScores returns scores = [], average = highest = lowest =
\* totalAttempts = passRate = 0 and trend = 'stable'.
C12_Original ==
    (pc = "aggregateScores" /\ ScoredAttempts(statements) = {}) =>
        /\ ret.scores = <<>>
        /\ ret.average = Num(0)
        /\ ret.highest = Num(0)
        /\ ret.lowest = Num(0)
        /\ ret.totalAttempts = 0
        /\ ret.passRate = Num(0)
        /\ ret.trend = "stable"

DistributionTotal(dist) == dist.A + dist.B + dist.C + dist.D + dist.F

\* C15 as stated: the distribution counts every score-bearing attempt: the
\* five bucket counts sum to totalAttempts, and each attempt's percentage p
\* is counted in A when 90 <= p <= 100, B when 80 <= p < 90, C when
\* 70 <= p < 80, D when 60 <= p < 70, F when 0 <= p < 60.
AttemptPercents(stmts) ==
    [j \in ScoredAttempts(stmts) |-> (2 * stmts[j].result.scaledMilli + 10) \div 20]

AttemptsIn(stmts, lo, hi) ==
    Cardinality({j \in ScoredAttempts(stmts) :
        lo <= AttemptPercents(stmts)[j] /\ AttemptPercents(stmts)[j] <= hi})

C15_Original ==
    (pc = "aggregateScores" /\ ScoredAttempts(statements) # {}) =>
        /\ DistributionTotal(ret.distribution) = ret.totalAttempts
        /\ ret.distribution.A = AttemptsIn(statements, 90, 100)
        /\ ret.distribution.B = AttemptsIn(statements, 80, 89)
        /\ ret.distribution.C = AttemptsIn(statements, 70, 79)
        /\ ret.distribution.D = AttemptsIn(statements, 60, 69)
        /\ ret.distribution.F = AttemptsIn(statements, 0, 59)

(***************************************************************************)
(* assessDataQuality: completeness and the overall score                   *)
(***************************************************************************)
\* latest activity now (freshness 100) or 8.5 days ago (freshness 85): the
\* freshness of these inputs is a whole number of points
CompletenessAges == {0, 8 * DayMs + 43200000}

CompletenessStmts ==
    {Stmt("a1", VerbExperienced, TypeVideo, QualityNow - age, r) :
        age \in CompletenessAges, r \in {NoResult, Unscored}}

InitCompleteness ==
    /\ statements \in BoundedSeq(CompletenessStmts, MaxCompletenessStmts)
    /\ now = QualityNow
    /\ data = EmptyData
    /\ anomalies = <<>>
    /\ pc = "start"
    /\ ret = <<>>
    /\ HookIdle

NextCompleteness == AssessDataQuality

SpecCompleteness == InitCompleteness /\ [][NextCompleteness]_vars

ResultCount(stmts) == Cardinality({i \in 1..Len(stmts) : stmts[i].result.present})

\* score = round((c + f) / 2) for c = cNum / cDen and f a whole number:
\* 2 * score - 1 <= c + f < 2 * score + 1
IsRoundedMean(score, cNum, cDen, f) ==
    /\ (2 * score - 1) * cDen <= cNum + f * cDen
    /\ cNum + f * cDen < (2 * score + 1) * cDen

\* C17 as stated: score = round((completeness + freshness) / 2) with
\* completeness the percentage of statements that carry a result, for every
\* ratio, and the score is within [0, 100].
C17_Original ==
    (pc = "assessDataQuality" /\ Len(statements) > 0) =>
        /\ ret.completeness.num * Len(statements)
              = 100 * ResultCount(statements) * ret.completeness.den
        /\ IsRoundedMean(ret.score, 100 * ResultCount(statements), Len(statements),
                         ret.freshness.num \div 8640000)
        /\ ret.score \in 0..100

\* C17 amended: score = round((completeness + freshness) / 2) where
\* completeness is the percentage of statements that carry a result when
\* that percentage is below 80, and 100 when it is 80 or more (0 for an empty
\* list); the score is within [0, 100].
C17_Amended ==
    pc = "assessDataQuality" =>
        LET n == Len(statements)
            k == ResultCount(statements)
            f == ret.freshness.num \div 8640000
        IN /\ ret.score \in 0..100
           /\ n = 0 => (ret.completeness.num = 0 /\ ret.score = 0)
           /\ (n > 0 /\ 100 * k < 80 * n) =>
                 /\ ret.completeness.num * n = 100 * k * ret.completeness.den
                 /\ IsRoundedMean(ret.score, 100 * k, n, f)
           /\ (n > 0 /\ 100 * k >= 80 * n) =>
                 /\ ret.completeness.num = 100 * ret.completeness.den
                 /\ IsRoundedMean(ret.score, 100, 1, f)

\* 4 of 5 statements carry a result (80%): completeness is 100, score 100
C17_Witness ==
    /\ pc = "assessDataQuality"
    /\ Len(statements) = 5 /\ ResultCount(statements) = 4
    /\ ret.freshness.num = 100 * 8640000
    /\ ret.completeness.num = 100 * ret.completeness.den
    /\ ret.score = 100

(***************************************************************************)
(* DataValidator.validateStatement                                         *)
(***************************************************************************)
ScaledOutOfRangeAboveOnly(sc) ==
    sc.hasScaled /\ sc.scaledMilli # 0 /\ sc.scaledMilli > 1000

\* score.scaled && (score.scaled < -1 || score.scaled > 1); 0 is falsy
ScaledOutOfRange(sc) ==
    sc.hasScaled /\ sc.scaledMilli # 0
        /\ (sc.scaledMilli < 0 - 1000 \/ sc.scaledMilli > 1000)

\* score.raw !== undefined && score.max !== undefined && score.raw > score.max
RawExceedsMax(sc) == sc.hasRaw /\ sc.hasMax /\ sc.raw > sc.max

validateStatement(stmt) ==
    LET errors ==
            (IF stmt.actor = "missing"
             THEN <<"Missing required field: actor">>
             ELSE IF stmt.actor = "anonymous"
                  THEN <<"Actor must have mbox or account">> ELSE <<>>)
            \o (IF stmt.verb = "missing"
                THEN <<"Missing required field: verb">>
                ELSE IF stmt.verb = "noId" THEN <<"Verb must have id">> ELSE <<>>)
            \o (IF stmt.object = "missing"
                THEN <<"Missing required field: object">>
                ELSE IF stmt.object = "noId" THEN <<"Object must have id">> ELSE <<>>)
            \o (IF stmt.score.present /\ ScaledOutOfRange(stmt.score)
                THEN <<"Scaled score must be between -1 and 1">> ELSE <<>>)
            \o (IF stmt.score.present /\ RawExceedsMax(stmt.score)
                THEN <<"Raw score cannot exceed max score">> ELSE <<>>)
        warnings ==
            IF ~ stmt.hasTimestamp
            THEN <<"Missing timestamp - will be set by LRS">> ELSE <<>>
    IN [isValid |-> Len(errors) = 0, errors |-> errors, warnings |-> warnings]

ValidateStatement ==
    /\ pc = "start"
    /\ ret' = validateStatement(statement)
    /\ pc' = "validateStatement"
    /\ UNCHANGED <<statements, now, data, anomalies, hookVars>>

\* actor: absent, without mbox and account, with mbox, with account;
\* verb and object: absent, without id, with id
WireActors == {"missing", "anonymous", "mbox", "account"}

WireParts == {"missing", "noId", "ok"}

WireScores ==
    {NoScore} \cup
    [present : {TRUE}, hasScaled : {TRUE}, scaledMilli : {0 - 1001, 0 - 1000, 0, 1000, 1001},
     hasRaw : BOOLEAN, raw : {8}, hasMax : BOOLEAN, max : {7, 8}]
    \cup
    [present : {TRUE}, hasScaled : {FALSE}, scaledMilli : {0},
     hasRaw : {TRUE}, raw : {8}, hasMax : {TRUE}, max : {7, 8}]

InitValidate ==
    /\ statements = <<>>
    /\ now = 0
    /\ data = EmptyData
    /\ anomalies = <<>>
    /\ pc = "start"
    /\ ret = <<>>
    /\ statement \in [actor : WireActors, verb : WireParts, object : WireParts,
                      hasTimestamp : BOOLEAN, score : WireScores]
    /\ rawData = [present |-> FALSE]
    /\ processedData = NoSummary
    /\ processingError = NoError
    /\ xapi = XAPIIdle

NextValidate == ValidateStatement

SpecValidate == InitValidate /\ [][NextValidate]_vars

\* C14: validateStatement returns isValid = true exactly when none of the
\* error conditions holds (actor missing, actor with neither mbox nor
\* account, verb or verb.id missing, object or object.id missing, scaled
\* outside [-1, 1], raw > max); a missing timestamp only adds a warning; and
\* isValid equals (errors is empty).
C14_ValidExactly ==
    pc = "validateStatement" =>
        LET sc == statement.score
            errorCondition ==
                \/ statement.actor \in {"missing", "anonymous"}
                \/ statement.verb \in {"missing", "noId"}
                \/ statement.object \in {"missing", "noId"}
                \/ sc.present /\ sc.hasScaled
                     /\ (sc.scaledMilli < 0 - 1000 \/ sc.scaledMilli > 1000)
                \/ sc.present /\ sc.hasRaw /\ sc.hasMax /\ sc.raw > sc.max
        IN /\ ret.isValid <=> ~ errorCondition
           /\ ret.isValid <=> ret.errors = <<>>
           /\ (~ statement.hasTimestamp) <=> ret.warnings # <<>>

\* a well-formed statement without timestamp: valid, with one warning; and
\* a scaled score below -1 makes an otherwise well-formed statement invalid
C14_Witness ==
    /\ pc = "validateStatement"
    /\ statement.actor = "account" /\ statement.verb = "ok" /\ statement.object = "ok"
    /\ ~ statement.hasTimestamp
    /\ statement.score.present /\ statement.score.scaledMilli = 0 - 1000
    /\ ret.isValid /\ Len(ret.warnings) = 1

(***************************************************************************)
(* CourseDataProcessor.generateTimelineData                                *)
(***************************************************************************)
Null == [kind |-> "null", val |-> 0]

\* duration.match(/PT(?:(\d+)H)?(?:(\d+)M)?(?:(\d+)S)?/): the parts that are
\* not captured count as 0
parseDuration(duration) ==
    IF duration.form = "PTnHnMnS"
    THEN duration.h * 3600 + duration.m * 60 + duration.s
    ELSE 0

\* formatDuration of num / den seconds: "<h>h <m>m", "<m>m <s>s" or "<s>s"
formatDuration(num, den) ==
    LET hours == num \div (3600 * den)
        minutes == (num % (3600 * den)) \div (60 * den)
        secs == [num |-> num % (60 * den), den |-> den]
        none == [num |-> 0, den |-> 1]
    IN IF hours > 0
       THEN [text |-> "h m", hours |-> hours, minutes |-> minutes, secs |-> none]
       ELSE IF minutes > 0
            THEN [text |-> "m s", hours |-> 0, minutes |-> minutes, secs |-> secs]
            ELSE [text |-> "s", hours |-> 0, minutes |-> 0, secs |-> secs]

\* type.split('/').pop()
LastSegment(type) ==
    CASE type = TypeModule -> "module"
      [] type = TypeVideo -> "video"
      [] type = TypeQuiz -> "quiz"
      [] type = TypeAssignment -> "assignment"
      [] OTHER -> "activity"

\* activities.reduce(...): the count of each activity type of a day
countActivityTypes(activities) ==
    LET types == {activities[i].type : i \in 1..Len(activities)}
    IN [t \in types |->
            Cardinality({i \in 1..Len(activities) : activities[i].type = t})]

TimelineOrderUnsorted(stmts) == stmts

\* statements.sort((a, b) => new Date(a.timestamp) - new Date(b.timestamp))
TimelineOrder(stmts) == SortByTimestamp(stmts)

\* the position of the bucket of a date in dailyActivities, 0 when absent
BucketIndex(days, date) ==
    IF \E i \in 1..Len(days) : days[i].date = date
    THEN CHOOSE i \in 1..Len(days) : days[i].date = date
    ELSE 0

NewBucket(date) ==
    [date |-> date, activities |-> <<>>, totalActivities |-> 0,
     completions |-> 0, scores |-> <<>>, videoTime |-> 0]

TimelineActivity(stmt) ==
    [id |-> stmt.id, verb |-> stmt.verb, type |-> LastSegment(stmt.type),
     timestamp |-> stmt.ts, success |-> stmt.result.success,
     score |-> IF stmt.result.present /\ stmt.result.hasScore
               THEN Num(ScorePercent(stmt)) ELSE Null]

\* sortedStatements.forEach: dailyActivities keeps its keys in insertion order
RECURSIVE TimelineLoop(_, _)
TimelineLoop(rest, days) ==
    IF rest = <<>> THEN days
    ELSE LET stmt == Head(rest)
             date == DateOf(stmt.ts)
             k == BucketIndex(days, date)
             base == IF k = 0 THEN Append(days, NewBucket(date)) ELSE days
             j == IF k = 0 THEN Len(base) ELSE k
             activity == TimelineActivity(stmt)
             day == [base[j] EXCEPT
                        !.activities = Append(@, activity),
                        !.totalActivities = @ + 1,
                        !.completions =
                            IF stmt.verb = VerbCompleted THEN @ + 1 ELSE @,
                        !.scores =
                            IF activity.score # Null
                            THEN Append(@, activity.score.val) ELSE @,
                        !.videoTime =
                            IF stmt.type = TypeVideo /\ stmt.result.present
                                 /\ stmt.result.duration.present
                            THEN @ + parseDuration(stmt.result.duration)
                            ELSE @]
         IN TimelineLoop(Tail(rest), [base EXCEPT ![j] = day])

\* Object.values(dailyActivities).map(day => ({...day, averageScore, ...}))
FinishDay(day) ==
    [date |-> day.date, activities |-> day.activities,
     totalActivities |-> day.totalActivities, completions |-> day.completions,
     scores |-> day.scores, videoTime |-> day.videoTime,
     averageScore |-> IF Len(day.scores) > 0
                      THEN Num(RoundDiv(SumSeq(day.scores), Len(day.scores)))
                      ELSE Null,
     videoTimeFormatted |-> formatDuration(day.videoTime, 1),
     activityTypes |-> countActivityTypes(day.activities)]

generateTimelineData(stmts) ==
    IF Len(stmts) = 0 THEN <<>>
    ELSE LET days == TimelineLoop(TimelineOrder(stmts), <<>>)
         IN [i \in 1..Len(days) |-> FinishDay(days[i])]

\* statements.sort(...) sorts the caller's array in place
GenerateTimelineData ==
    /\ pc = "start"
    /\ ret' = generateTimelineData(statements)
    /\ statements' = IF Len(statements) = 0 THEN statements
                     ELSE TimelineOrder(statements)
    /\ pc' = "generateTimelineData"
    /\ UNCHANGED <<now, data, anomalies, hookVars>>

MaxTimelineStmts == 3

\* two instants of day 0, one of day 1, one of day 3
TimelineTimes == {1000, 7200000, DayMs + 1000, 3 * DayMs + 1000}

TimelineStmts ==
    {Stmt("m1", VerbCompleted, TypeModule, t, NoResult) : t \in TimelineTimes}
    \cup {Stmt("q1", VerbScored, TypeQuiz, t, Scored(855, TRUE)) : t \in TimelineTimes}
    \cup {Stmt("v1", VerbExperienced, TypeVideo, t, Watched(Duration(1, 2, 3))) :
            t \in TimelineTimes}

InitTimeline ==
    /\ statements \in BoundedSeq(TimelineStmts, MaxTimelineStmts)
    /\ now = 4 * DayMs
    /\ data = EmptyData
    /\ anomalies = <<>>
    /\ pc = "start"
    /\ ret = <<>>
    /\ HookIdle

NextTimeline == GenerateTimelineData

SpecTimeline == InitTimeline /\ [][NextTimeline]_vars

\* C18: generateTimelineData returns exactly one bucket per distinct calendar
\* date that has at least one statement, no bucket for any other date, and
\* the buckets in strictly ascending date order.
C18_TimelineBuckets ==
    pc = "generateTimelineData" =>
        /\ {ret[i].date : i \in 1..Len(ret)} = DatesOf(statements)
        /\ Len(ret) = Cardinality(DatesOf(statements))
        /\ \A i \in 1..Len(ret) :
              ret[i].totalActivities =
                  Cardinality({j \in 1..Len(statements) :
                                  DateOf(statements[j].ts) = ret[i].date})
        /\ \A i \in 1..(Len(ret) - 1) : ret[i].date < ret[i + 1].date

\* two statements on day 0 and one on day 3: two buckets, none for days 1, 2
C18_Witness ==
    /\ pc = "generateTimelineData"
    /\ Len(statements) = 3
    /\ Len(ret) = 2
    /\ ret[1].date = 0 /\ ret[1].totalActivities = 2
    /\ ret[2].date = 3 /\ ret[2].totalActivities = 1

(***************************************************************************)
(* CourseDataProcessor.calculateEngagementMetrics                          *)
(***************************************************************************)
RECURSIVE TotalVideoTimeHours(_)
TotalVideoTimeHours(videoStatements) ==
    IF videoStatements = <<>> THEN 0
    ELSE LET stmt == Head(videoStatements)
         IN (IF stmt.result.present /\ stmt.result.duration.present
             THEN stmt.result.duration.h * 3600 ELSE 0)
            + TotalVideoTimeHours(Tail(videoStatements))

\* videoStatements.reduce: the parsed durations of the statements that have one
RECURSIVE TotalVideoTime(_)
TotalVideoTime(videoStatements) ==
    IF videoStatements = <<>> THEN 0
    ELSE LET stmt == Head(videoStatements)
         IN (IF stmt.result.present /\ stmt.result.duration.present
             THEN parseDuration(stmt.result.duration) ELSE 0)
            + TotalVideoTime(Tail(videoStatements))

calculateEngagementMetrics(stmts, nowMs) ==
    LET videoStatements == SelectSeq(stmts, LAMBDA stmt : stmt.type = TypeVideo)
        totalVideoTime == TotalVideoTime(videoStatements)
        sessions == calculateStudySessions(stmts)
        streak == calculateLearningStreak(stmts, nowMs)
        durations == [i \in 1..Len(sessions) |-> sessions[i].duration.num]
        zeroMinutes == [text |-> "0m", hours |-> 0, minutes |-> 0,
                        secs |-> [num |-> 0, den |-> 1]]
    IN [totalVideoTime |-> totalVideoTime,
        totalVideoTimeFormatted |-> formatDuration(totalVideoTime, 1),
        videoInteractions |-> Len(videoStatements),
        studySessions |-> Len(sessions),
        averageSessionLength |->
            IF Len(sessions) > 0
            THEN formatDuration(SumSeq(durations), 1000 * Len(sessions))
            ELSE zeroMinutes,
        longestSession |->
            IF Len(sessions) > 0
            THEN formatDuration(MaxOf({durations[i] : i \in 1..Len(durations)}), 1000)
            ELSE zeroMinutes,
        currentStreak |-> streak.current,
        longestStreak |-> streak.longest,
        totalActiveDays |-> streak.totalDays]

\* calculateStudySessions sorts the caller's array in place
CalculateEngagementMetrics ==
    /\ pc = "start"
    /\ ret' = calculateEngagementMetrics(statements, now)
    /\ statements' = IF Len(statements) = 0 THEN statements
                     ELSE SortByTimestamp(statements)
    /\ pc' = "calculateEngagementMetrics"
    /\ UNCHANGED <<now, data, anomalies, hookVars>>

\* the aggregation operations, each called on the same statement array
NextAggregation ==
    \/ CalculateProgress
    \/ AggregateScores
    \/ GenerateTimelineData
    \/ CalculateEngagementMetrics

SpecAggregation == InitTimeline /\ [][NextAggregation]_vars

\* C19: the aggregation operations leave the caller's statement array
\* unchanged: the same elements in the same order after the call as before.
C19_Original == [][statements' = statements]_vars

(***************************************************************************)
(* DataAggregator.generateInsights and the chart projections               *)
(***************************************************************************)
Insight(type, category, title, priority) ==
    [type |-> type, category |-> category, title |-> title, priority |-> priority]

PriorityOrderFlat(priority) == 1

\* priorityOrder = { high: 3, medium: 2, low: 1 }
PriorityOrder(priority) ==
    CASE priority = "high" -> 3
      [] priority = "medium" -> 2
      [] OTHER -> 1

\* data.timeline.slice(-n)
LastN(s, n) ==
    IF Len(s) <= n THEN s ELSE SubSeq(s, Len(s) - n + 1, Len(s))

GreatStudyHabitsAllDays(timeline) ==
    LET totals == [i \in 1..Len(timeline) |-> timeline[i].totalActivities]
    IN Len(timeline) > 0 /\ SumSeq(totals) >= 5 * Len(timeline)

\* avgDailyActivities >= 5; over an empty timeline the average is NaN and the
\* comparison is false
GreatStudyHabits(timeline) ==
    LET recentActivity == LastN(timeline, 7)
        totals == [i \in 1..Len(recentActivity) |-> recentActivity[i].totalActivities]
    IN Len(recentActivity) > 0 /\ SumSeq(totals) >= 5 * Len(recentActivity)

generateInsights(d) ==
    LET insights ==
            (IF d.progress.percentage >= 80
             THEN <<Insight("success", "progress", "Excellent Progress!", "high")>>
             ELSE IF d.progress.percentage < 30
                  THEN <<Insight("warning", "progress", "Let's Get Moving", "medium")>>
                  ELSE <<>>)
            \o (IF d.scores.trend = "improving"
                THEN <<Insight("success", "performance", "Improving Performance", "high")>>
                ELSE IF d.scores.trend = "declining"
                     THEN <<Insight("warning", "performance", "Performance Dip", "high")>>
                     ELSE <<>>)
            \o (IF d.engagement.currentStreak >= 7
                THEN <<Insight("success", "engagement", "Amazing Streak!", "high")>>
                ELSE IF d.engagement.currentStreak = 0
                     THEN <<Insight("info", "engagement", "Time to Resume", "medium")>>
                     ELSE <<>>)
            \o (IF GreatStudyHabits(d.timeline)
                THEN <<Insight("success", "habits", "Great Study Habits", "medium")>>
                ELSE <<>>)
            \o (IF d.engagement.totalVideoTime > 3600
                THEN <<Insight("info", "engagement", "Video Learner", "low")>>
                ELSE <<>>)
    IN SortStableBy(insights,
            [i \in 1..Len(insights) |-> 0 - PriorityOrder(insights[i].priority)])

transformProgressChart(progressData) ==
    [data |-> <<progressData.completed, progressData.remaining>>,
     percentage |-> progressData.percentage]

\* scoreData.scores.sort((a, b) => a.timestamp - b.timestamp): the array of
\* the score summary itself, sorted in place
ChartSortedScores(scores) == SortOldestFirst(scores)

transformScoreChart(scoreData) ==
    LET sortedScores == ChartSortedScores(scoreData.scores)
    IN [data |-> [i \in 1..Len(sortedScores) |-> sortedScores[i].score]]

transformTimelineChart(timelineData) ==
    LET last30Days == LastN(timelineData, 30)
    IN [totalActivities |->
            [i \in 1..Len(last30Days) |-> last30Days[i].totalActivities],
        completions |->
            [i \in 1..Len(last30Days) |-> last30Days[i].completions]]

\* Object.keys(distribution) throws a TypeError when distribution is undefined
DistributionChartThrows(distribution) == distribution = Undefined

transformDistributionChart(distribution) ==
    [labels |-> <<"A", "B", "C", "D", "F">>,
     data |-> <<distribution.A, distribution.B, distribution.C,
                distribution.D, distribution.F>>]

\* Math.min((value / max) * 100, 100) as a fraction
RadarScore(value, max) ==
    IF value >= max THEN [num |-> 100, den |-> 1]
    ELSE [num |-> value * 100, den |-> max]

transformEngagementRadar(engagementData) ==
    [data |-> <<RadarScore(engagementData.totalVideoTime, 7200),
                RadarScore(engagementData.studySessions, 50),
                RadarScore(engagementData.currentStreak, 30),
                RadarScore(engagementData.totalActiveDays, 100),
                [num |-> 75, den |-> 1]>>]

(***************************************************************************)
(* DataAggregator.createDashboardSummary                                   *)
(***************************************************************************)
TypeErrorMessage == "Cannot convert undefined or null to object"

\* the return statement of createDashboardSummary, from its constants
DashboardSummary(progressData, scoreData, timelineData, engagementMetrics, insights, dataQuality) ==
    IF DistributionChartThrows(scoreData.distribution)
    THEN [threw |-> TRUE, message |-> TypeErrorMessage]
    ELSE [threw |-> FALSE,
          overview |-> [dataQuality |-> dataQuality],
          progress |-> progressData,
          \* transformScoreChart has sorted scoreData.scores in place
          scores |-> [scoreData EXCEPT !.scores = ChartSortedScores(@)],
          timeline |-> timelineData,
          engagement |-> engagementMetrics,
          insights |-> insights,
          charts |-> [progress |-> transformProgressChart(progressData),
                      scores |-> transformScoreChart(scoreData),
                      timeline |-> transformTimelineChart(timelineData),
                      distribution |->
                          transformDistributionChart(scoreData.distribution),
                      engagement |->
                          transformEngagementRadar(engagementMetrics)]]

\* each const of the function is computed once and then used by name
createDashboardSummary(rd, nowMs) ==
    LET allStatements ==
            rd.completed \o rd.quizzes \o rd.assignments \o rd.videoInteractions
        \* generateTimelineData sorts allStatements in place
        sortedStatements ==
            IF Len(allStatements) = 0 THEN allStatements
            ELSE TimelineOrder(allStatements)
    IN CHOOSE summary \in
           {DashboardSummary(progressData, scoreData, timelineData,
                             engagementMetrics,
                             generateInsights([progress |-> progressData,
                                               scores |-> scoreData,
                                               engagement |-> engagementMetrics,
                                               timeline |-> timelineData]),
                             dataQuality) :
               progressData \in {calculateProgress(allStatements)},
               scoreData \in {aggregateScores(rd.quizzes \o rd.assignments)},
               timelineData \in {generateTimelineData(allStatements)},
               engagementMetrics \in
                   {calculateEngagementMetrics(sortedStatements, nowMs)},
               dataQuality \in {assessDataQuality(sortedStatements, nowMs)}} : TRUE

(***************************************************************************)
(* useProcessedData: the processing effect and exportData                  *)
(***************************************************************************)
\* validateDashboardData checks the structure of the bundle only: the five
\* required sections (the statements themselves are not inspected)
validateDashboardData(rd) ==
    LET errors == IF rd.hasSections THEN <<>>
                  ELSE <<"Missing required section">>
    IN [isValid |-> Len(errors) = 0, errors |-> errors]

\* { ...processed, anomalies, validation }
ProcessedData(processed, anoms, validation) ==
    [present |-> TRUE,
     overview |-> processed.overview,
     progress |-> processed.progress,
     scores |-> processed.scores,
     timeline |-> processed.timeline,
     engagement |-> processed.engagement,
     insights |-> processed.insights,
     charts |-> processed.charts,
     anomalies |-> anoms,
     validation |-> validation]

\* the try block after a successful validation
ProcessValid(processed, validation, pd) ==
    IF processed.threw
    THEN [processedData |-> pd, processingError |-> processed.message]
    ELSE [processedData |->
              ProcessedData(processed,
                  detectAnomalies([hasScores |-> TRUE,
                                   scores |-> processed.scores.scores,
                                   hasTimeline |-> TRUE,
                                   timeline |-> processed.timeline]),
                  validation),
          processingError |-> NoError]

\* the state the effect leaves behind, from the state it found
ProcessingEffect(rd, nowMs, pd, pe) ==
    IF ~ rd.present
    THEN [processedData |-> NoSummary, processingError |-> pe]
    ELSE LET validation == validateDashboardData(rd)
         IN IF ~ validation.isValid
            THEN [processedData |-> pd,
                  processingError |-> "Data validation failed"]
            ELSE CHOOSE after \in
                     {ProcessValid(processed, validation, pd) :
                         processed \in {createDashboardSummary(rd, nowMs)}} : TRUE

ProcessRawData ==
    /\ pc = "start"
    /\ \E after \in {ProcessingEffect(rawData, now, processedData, processingError)} :
          /\ processedData' = after.processedData
          /\ processingError' = after.processingError
    /\ pc' = "processed"
    /\ UNCHANGED <<statements, now, data, anomalies, ret, statement, rawData, xapi>>

\* the decimal digits of a natural number, most significant first
RECURSIVE Digits(_)
Digits(n) == IF n < 10 THEN <<n>> ELSE Append(Digits(n \div 10), n % 10)

RECURSIVE FromDigits(_)
FromDigits(ds) ==
    IF ds = <<>> THEN 0
    ELSE FromDigits(SubSeq(ds, 1, Len(ds) - 1)) * 10 + ds[Len(ds)]

\* a number of the summary: an integer (den = 1), a fraction, NaN, an
\* infinity, or null
JsNumber(x) == [kind |-> x.kind, num |-> x.val, den |-> 1]

JsInt(n) == [kind |-> "num", num |-> n, den |-> 1]

JsFraction(f) == [kind |-> "num", num |-> f.num, den |-> f.den]

\* JSON.stringify of a number: the decimal text of a finite number (for a
\* fraction the text that denotes num / den), and null for NaN, Infinity and
\* -Infinity
JsonStringifyNumber(x) ==
    IF x.kind = "num"
    THEN [text |-> "number", negative |-> x.num < 0,
          digits |-> Digits(IF x.num < 0 THEN 0 - x.num ELSE x.num),
          over |-> Digits(x.den)]
    ELSE [text |-> "null", negative |-> FALSE, digits |-> <<>>, over |-> <<>>]

JsonParseNumber(t) ==
    IF t.text = "null" THEN [kind |-> "null", num |-> 0, den |-> 1]
    ELSE [kind |-> "num",
          num |-> IF t.negative THEN 0 - FromDigits(t.digits)
                  ELSE FromDigits(t.digits),
          den |-> FromDigits(t.over)]

RECURSIVE DayFields(_)
DayFields(timeline) ==
    IF timeline = <<>> THEN <<>>
    ELSE LET day == Head(timeline)
         IN <<JsInt(day.totalActivities), JsInt(day.completions),
              JsNumber(day.averageScore), JsInt(day.videoTime)>>
            \o DayFields(Tail(timeline))

\* the numeric fields of the summary, in the order JSON.stringify writes them
NumericFields(pd) ==
    <<JsInt(pd.overview.dataQuality.score),
      JsFraction(pd.overview.dataQuality.completeness),
      JsFraction(pd.overview.dataQuality.freshness),
      JsInt(pd.progress.completed), JsInt(pd.progress.total),
      JsInt(pd.progress.percentage), JsInt(pd.progress.remaining),
      JsNumber(pd.scores.average), JsNumber(pd.scores.highest),
      JsNumber(pd.scores.lowest), JsInt(pd.scores.totalAttempts),
      JsNumber(pd.scores.passRate)>>
    \o DayFields(pd.timeline)
    \o <<JsInt(pd.engagement.totalVideoTime), JsInt(pd.engagement.studySessions),
         JsInt(pd.engagement.currentStreak), JsInt(pd.engagement.longestStreak),
         JsInt(pd.engagement.totalActiveDays)>>

\* exportData('json'): null without processed data, else the JSON text, of
\* which the number tokens are kept
exportData(pd) ==
    IF ~ pd.present THEN <<>>
    ELSE LET fields == NumericFields(pd)
         IN [i \in 1..Len(fields) |-> JsonStringifyNumber(fields[i])]

ExportData ==
    /\ pc = "processed"
    /\ ret' = exportData(processedData)
    /\ pc' = "exported"
    /\ UNCHANGED <<statements, now, data, anomalies, hookVars>>

MaxBundleStmts == 2

BundleNow == 5 * DayMs

BundleTimes == {DayMs + 1000, 4 * DayMs + 1000}

\* what the service queries return: completed modules, scored quizzes (the
\* score as the LRS stored it, in range or not), assignments with or without
\* a score, video interactions with a duration
BundleModules ==
    {Stmt("m1", VerbCompleted, TypeModule, t, Unscored) : t \in BundleTimes}

BundleQuizzes ==
    {Stmt(i, VerbScored, TypeQuiz, t, r) :
        i \in {"q1", "q2"}, t \in BundleTimes,
        r \in {Scored(1000, TRUE), Scored(400, FALSE), Scored(1500, TRUE)}}

BundleAssignments ==
    {Stmt("a1", VerbCompleted, TypeAssignment, t, r) :
        t \in BundleTimes, r \in {Unscored, Scored(855, TRUE)}}

BundleVideos ==
    {Stmt("v1", VerbExperienced, TypeVideo, t, Watched(Duration(1, 30, 0))) :
        t \in BundleTimes}

RawData(sections, pool) ==
    [present |-> TRUE, hasSections |-> sections,
     completed |-> SelectSeq(pool, LAMBDA stmt : stmt.type = TypeModule),
     quizzes |-> SelectSeq(pool, LAMBDA stmt : stmt.type = TypeQuiz),
     assignments |-> SelectSeq(pool, LAMBDA stmt : stmt.type = TypeAssignment),
     videoInteractions |-> SelectSeq(pool, LAMBDA stmt : stmt.type = TypeVideo)]

BundleSize(rd) ==
    Len(rd.completed) + Len(rd.quizzes) + Len(rd.assignments)
        + Len(rd.videoInteractions)

InitPipeline ==
    /\ statements = <<>>
    /\ now = BundleNow
    /\ data = EmptyData
    /\ anomalies = <<>>
    /\ pc = "start"
    /\ ret = <<>>
    /\ statement = WireStatement("mbox", "ok", "ok", TRUE, NoScore)
    /\ rawData \in
          {[present |-> FALSE]}
          \cup {RawData(sections, pool) :
                  sections \in BOOLEAN,
                  pool \in BoundedSeq(BundleModules \cup BundleQuizzes
                                        \cup BundleAssignments \cup BundleVideos,
                                      MaxBundleStmts)}
    /\ processedData = NoSummary
    /\ processingError = NoError
    /\ xapi = XAPIIdle

NextPipeline == ProcessRawData \/ ExportData

SpecPipeline == InitPipeline /\ [][NextPipeline]_vars

\* the effect ran on a structurally valid bundle
Processed == pc = "processed" /\ rawData.present /\ rawData.hasSections

\* C11: on a bundle whose statement collections are all empty, or that holds
\* a single statement, createDashboardSummary followed by detectAnomalies
\* does not throw and the summary is well defined; for the empty bundle it
\* has progress 0/0/0, all-zero scores with trend stable, an empty timeline,
\* zero streaks and riskLevel none.
C11_Original ==
    (Processed /\ BundleSize(rawData) <= 1) =>
        /\ processingError = NoError
        /\ processedData.present
        /\ BundleSize(rawData) = 0 =>
              /\ processedData.progress.completed = 0
              /\ processedData.progress.total = 0
              /\ processedData.progress.percentage = 0
              /\ processedData.scores.average = Num(0)
              /\ processedData.scores.highest = Num(0)
              /\ processedData.scores.lowest = Num(0)
              /\ processedData.scores.passRate = Num(0)
              /\ processedData.scores.trend = "stable"
              /\ processedData.timeline = <<>>
              /\ processedData.engagement.currentStreak = 0
              /\ processedData.engagement.longestStreak = 0
              /\ processedData.anomalies.riskLevel = "none"

\* the statement as validateStatement reads it: the queries of the service
\* select by actor, verb id and activity, so these are present
ShapeOf(stmt) ==
    WireStatement("mbox", "ok", "ok", TRUE,
        IF stmt.result.present /\ stmt.result.hasScore
        THEN [present |-> TRUE, hasScaled |-> TRUE,
              scaledMilli |-> stmt.result.scaledMilli,
              hasRaw |-> FALSE, raw |-> 0, hasMax |-> FALSE, max |-> 0]
        ELSE NoScore)

IsValidStatement(stmt) == validateStatement(ShapeOf(stmt)).isValid

ValidOnly(rd) ==
    [rd EXCEPT !.completed = SelectSeq(@, IsValidStatement),
               !.quizzes = SelectSeq(@, IsValidStatement),
               !.assignments = SelectSeq(@, IsValidStatement),
               !.videoInteractions = SelectSeq(@, IsValidStatement)]

\* C13: a statement that fails validateStatement does not contribute to any
\* derived metric and does not abort the aggregation: over a pool that has
\* valid statements plus one invalid one the outcome equals the outcome for
\* the valid statements alone (which is taken to have a summary).
C13_Original ==
    (/\ Processed
     /\ BundleSize(ValidOnly(rawData)) >= 1
     /\ BundleSize(rawData) = BundleSize(ValidOnly(rawData)) + 1
     /\ ~ createDashboardSummary(ValidOnly(rawData), now).threw) =>
        [processedData |-> processedData, processingError |-> processingError]
            = ProcessingEffect(ValidOnly(rawData), now, NoSummary, NoError)

\* C16: in the summary, scores.scores is ordered newest-first: every record
\* has a timestamp >= that of the record listed after it.
C16_Original ==
    (Processed /\ processedData.present) =>
        LET scores == processedData.scores.scores
        IN \A i \in 1..(Len(scores) - 1) :
              scores[i].timestamp >= scores[i + 1].timestamp

\* C20: exportData('json') followed by parsing the text yields numeric
\* fields identical to those of the exported summary.
C20_Original ==
    (pc = "exported" /\ processedData.present) =>
        LET fields == NumericFields(processedData)
        IN \A i \in 1..Len(fields) : JsonParseNumber(ret[i]) = fields[i]

(***************************************************************************)
(* aggregateScores: the one-per-activity records                           *)
(***************************************************************************)
\* the score-bearing statements of one activity
AttemptsOf(stmts, a) == {j \in ScoredAttempts(stmts) : stmts[j].id = a}

RecordsOf(records, a) == {i \in 1..Len(records) : records[i].activityId = a}

\* C21: for every activity id with a score-bearing statement aggregateScores
\* returns exactly one record, carrying the score of an attempt with the
\* greatest timestamp of the activity, attempts = the number of its
\* score-bearing statements and bestScore = the maximum percentage of the
\* group; average (rounded), highest, lowest and passRate (rounded) are taken
\* over these records, and the attempts sum to totalAttempts.
C21_CanonicalRecords ==
    (pc = "aggregateScores" /\ ScoredAttempts(statements) # {}) =>
        LET records == ret.scores
            n == Len(records)
            values == ScoreValues(records)
            percents == AttemptPercents(statements)
            passed == Cardinality({i \in 1..n : records[i].success})
        IN /\ {records[i].activityId : i \in 1..n} = ScoredActivities(statements)
           /\ \A a \in ScoredActivities(statements) :
                 /\ Cardinality(RecordsOf(records, a)) = 1
                 /\ \A i \in RecordsOf(records, a) :
                       LET attempts == AttemptsOf(statements, a)
                       IN /\ \A j \in attempts : statements[j].ts <= records[i].timestamp
                          /\ \E j \in attempts :
                                /\ statements[j].ts = records[i].timestamp
                                /\ percents[j] = records[i].score
                          /\ records[i].attempts = Cardinality(attempts)
                          /\ \A j \in attempts : percents[j] <= records[i].bestScore
                          /\ \E j \in attempts : percents[j] = records[i].bestScore
           /\ ret.average.kind = "num"
           /\ 2 * ret.average.val * n - 2 * SumSeq(values) \in (1 - n)..n
           /\ ret.highest = Num(MaxOf({values[i] : i \in 1..n}))
           /\ ret.lowest = Num(MinOf({values[i] : i \in 1..n}))
           /\ ret.passRate.kind = "num"
           /\ 2 * ret.passRate.val * n - 200 * passed \in (1 - n)..n
           /\ SumSeq([i \in 1..n |-> records[i].attempts]) = ret.totalAttempts
           /\ ret.totalAttempts = Cardinality(ScoredAttempts(statements))

\* q1 attempted twice, the later attempt with the lower score, and a second
\* activity: two records, the one of q1 with attempts = 2 and bestScore above
\* its score
C21_Witness ==
    /\ pc = "aggregateScores"
    /\ Len(ret.scores) = 2
    /\ \E i \in 1..2 :
          /\ ret.scores[i].attempts = 2
          /\ ret.scores[i].bestScore > ret.scores[i].score
          /\ ret.scores[i].timestamp = 2000
    /\ ret.totalAttempts = 3

(***************************************************************************)
(* calculateScoreTrend on its own                                          *)
(***************************************************************************)
\* scores.sort(...) sorts the array it was given in place; data.scores holds
\* that array
CalculateScoreTrend ==
    /\ pc = "start"
    /\ ret' = calculateScoreTrend(data.scores)
    /\ data' = [data EXCEPT !.scores = ScoresAfterTrend(@)]
    /\ pc' = "calculateScoreTrend"
    /\ UNCHANGED <<statements, now, anomalies, hookVars>>

MaxTrendRecords == 3

TrendRecords ==
    [score : {44, 45, 50, 55, 56}, timestamp : {1000, 2000, 3000}]

InitTrend ==
    /\ statements = <<>>
    /\ now = 0
    /\ data \in [hasScores : {TRUE},
                 scores : BoundedSeq(TrendRecords, MaxTrendRecords),
                 hasTimeline : {FALSE},
                 timeline : {<<>>}]
    /\ anomalies = <<>>
    /\ pc = "start"
    /\ ret = <<>>
    /\ HookIdle

NextTrend == CalculateScoreTrend

SpecTrend == InitTrend /\ [][NextTrend]_vars

\* the sum of the scores of positions lo..hi
HalfSum(records, lo, hi) == SumSeq([i \in 1..(hi - lo + 1) |-> records[lo + i - 1].score])

\* mean(later) - mean(earlier) compared with bound, both sides multiplied by
\* the sizes of the halves: -1 below, 0 equal, 1 above
CompareMeanDifference(records, bound) ==
    LET n == Len(records)
        k == n \div 2
        lhs == HalfSum(records, k + 1, n) * k - HalfSum(records, 1, k) * (n - k)
        rhs == bound * k * (n - k)
    IN IF lhs > rhs THEN 1 ELSE IF lhs = rhs THEN 0 ELSE 0 - 1

GenerateInsights ==
    /\ pc = "start"
    /\ ret' = generateInsights(data)
    /\ pc' = "generateInsights"
    /\ UNCHANGED <<statements, now, data, anomalies, hookVars>>

\* day buckets with the given totalActivities
Days(totals) == [i \in 1..Len(totals) |-> [totalActivities |-> totals[i]]]

\* empty; one day below and one at 5; eight days whose last seven average
\* below 5 while all eight average above; eight days whose last seven
\* average exactly 5 while all eight average below
InsightTimelines ==
    {<<>>, Days(<<4>>), Days(<<5>>),
     Days(<<100, 4, 4, 4, 4, 4, 4, 4>>),
     Days(<<0, 5, 5, 5, 5, 5, 5, 5>>)}

InitInsights ==
    /\ statements = <<>>
    /\ now = 0
    /\ data \in [progress : [percentage : {0, 29, 30, 79, 80, 100}],
                 scores : [trend : {"improving", "declining", "stable"}],
                 engagement : [currentStreak : {0, 1, 6, 7},
                               totalVideoTime : {0, 3600, 3601}],
                 timeline : InsightTimelines]
    /\ anomalies = <<>>
    /\ pc = "start"
    /\ ret = <<>>
    /\ HookIdle

NextInsights == GenerateInsights

SpecInsights == InitInsights /\ [][NextInsights]_vars

\* high > medium > low
PriorityRank(insight) ==
    CASE insight.priority = "high" -> 3
      [] insight.priority = "medium" -> 2
      [] insight.priority = "low" -> 1

\* the position of the rule that emits the insight: progress, score trend,
\* streak, study habits, video
RuleRank(insight) ==
    CASE insight.category = "progress" -> 1
      [] insight.category = "performance" -> 2
      [] insight.category = "engagement" /\ insight.title # "Video Learner" -> 3
      [] insight.category = "habits" -> 4
      [] insight.title = "Video Learner" -> 5

\* C23: the list returned by generateInsights is sorted by descending
\* priority, and insights of equal priority appear in rule-evaluation order.
C23_InsightOrder ==
    pc = "generateInsights" =>
        \A i, j \in 1..Len(ret) :
            i < j =>
                /\ PriorityRank(ret[i]) >= PriorityRank(ret[j])
                /\ PriorityRank(ret[i]) = PriorityRank(ret[j])
                      => RuleRank(ret[i]) < RuleRank(ret[j])

\* a medium progress warning, a high performance insight, a medium streak
\* info, a medium habits insight and a low video insight: the high one moves
\* to the front and the three medium ones keep their rule order
C23_Witness ==
    /\ pc = "generateInsights"
    /\ Len(ret) = 5
    /\ ret[1].category = "performance"
    /\ ret[2].category = "progress"
    /\ ret[3].title = "Time to Resume"
    /\ ret[4].category = "habits"
    /\ ret[5].title = "Video Learner"

HasInsight(type, category, title) ==
    \E i \in 1..Len(ret) :
        ret[i].type = type /\ ret[i].category = category /\ ret[i].title = title

\* the mean totalActivities of the last up-to-7 buckets is >= 5
RecentMeanAtLeastFive(timeline) ==
    LET n == Len(timeline)
        recent == {i \in 1..n : i > n - 7}
        total == SumSeq([i \in 1..n |->
                    IF i \in recent THEN timeline[i].totalActivities ELSE 0])
    IN recent # {} /\ total >= 5 * Cardinality(recent)

\* C24: generateInsights emits an insight for a rule exactly when the rule's
\* condition holds, and no other insight; an empty timeline produces no
\* habits insight.
C24_InsightRules ==
    pc = "generateInsights" =>
        LET conditions ==
              <<data.progress.percentage >= 80,
                data.progress.percentage < 30,
                data.scores.trend = "improving",
                data.scores.trend = "declining",
                data.engagement.currentStreak >= 7,
                data.engagement.currentStreak = 0,
                RecentMeanAtLeastFive(data.timeline),
                data.engagement.totalVideoTime > 3600>>
        IN /\ HasInsight("success", "progress", "Excellent Progress!") <=> conditions[1]
           /\ HasInsight("warning", "progress", "Let's Get Moving") <=> conditions[2]
           /\ HasInsight("success", "performance", "Improving Performance") <=> conditions[3]
           /\ HasInsight("warning", "performance", "Performance Dip") <=> conditions[4]
           /\ HasInsight("success", "engagement", "Amazing Streak!") <=> conditions[5]
           /\ HasInsight("info", "engagement", "Time to Resume") <=> conditions[6]
           /\ HasInsight("success", "habits", "Great Study Habits") <=> conditions[7]
           /\ HasInsight("info", "engagement", "Video Learner") <=> conditions[8]
           /\ Len(ret) = Cardinality({k \in 1..8 : conditions[k]})
           /\ data.timeline = <<>> => ~ \E i \in 1..Len(ret) : ret[i].category = "habits"

\* eight days whose last seven average 5 although all eight average less:
\* the habits insight is emitted; progress at 80 gives the success insight
C24_Witness ==
    /\ pc = "generateInsights"
    /\ Len(data.timeline) = 8
    /\ data.timeline[1].totalActivities = 0
    /\ data.progress.percentage = 80
    /\ data.engagement.totalVideoTime = 3600
    /\ HasInsight("success", "habits", "Great Study Habits")
    /\ HasInsight("success", "progress", "Excellent Progress!")
    /\ ~ HasInsight("info", "engagement", "Video Learner")

(***************************************************************************)
(* calculateStudySessions: the sessions as a partition                     *)
(***************************************************************************)
\* the position in the time-sorted statements of the first statement of
\* session k, when the sessions are laid end to end
FirstOf(sessions, k) ==
    1 + SumSeq([i \in 1..(k - 1) |-> sessions[i].activities])

LastOf(sessions, k) == FirstOf(sessions, k) + sessions[k].activities - 1

MaxFetches == 5

\* the bundle that getDashboardData returned to fetch k
FetchResult(k) == [present |-> TRUE, fetch |-> k]

\* fetchData up to its await: returns at once without service or
\* parameters, else setLoading(true), setError(null) and the request goes out
fetchData(x) ==
    IF ~ x.ready THEN x
    ELSE [x EXCEPT !.loading = TRUE,
                   !.error = NoError,
                   !.inFlight = @ \cup {x.started + 1},
                   !.started = @ + 1]

\* hasData of useProcessedData, for a fetched bundle that processes
HasData == rawData.present

\* the Dashboard renders the spinner while (loading && !hasData) and the
\* error screen while (error && !hasData); otherwise the header and its inputs
HeaderVisible ==
    /\ ~ (xapi.loading /\ ~ HasData)
    /\ ~ (xapi.error # NoError /\ ~ HasData)

\* useEffect(() => { fetchData(); }, [fetchData]) on mount
MountFetch ==
    /\ pc = "start"
    /\ xapi' = fetchData(xapi)
    /\ pc' = "mounted"
    /\ UNCHANGED <<statements, now, data, anomalies, ret, statement, rawData,
                   processedData, processingError>>

\* the user edits userEmail or courseId in the header: fetchData is
\* re-created and the effect calls it, whatever loading is
DependencyChange ==
    /\ pc = "mounted"
    /\ HeaderVisible
    /\ xapi.started < MaxFetches
    /\ xapi' = fetchData(xapi)
    /\ UNCHANGED <<statements, now, data, anomalies, ret, statement, rawData,
                   processedData, processingError, pc>>

\* the Refresh button (disabled while loading) and the Try Again button of
\* the error screen (not rendered while loading && !hasData)
UserRefresh ==
    /\ pc = "mounted"
    /\ ~ xapi.loading
    /\ xapi.started < MaxFetches
    /\ xapi' = fetchData(xapi)
    /\ UNCHANGED <<statements, now, data, anomalies, ret, statement, rawData,
                   processedData, processingError, pc>>

\* setInterval(() => { if (!loading) refresh(); }, 5 * 60 * 1000)
TimerRefresh ==
    /\ pc = "mounted"
    /\ ~ xapi.loading
    /\ xapi.started < MaxFetches
    /\ xapi' = fetchData(xapi)
    /\ UNCHANGED <<statements, now, data, anomalies, ret, statement, rawData,
                   processedData, processingError, pc>>

\* the await of fetch k resolves: setData, setLastFetch, setLoading(false)
FetchSucceeds ==
    \E k \in xapi.inFlight :
        /\ rawData' = FetchResult(k)
        /\ xapi' = [xapi EXCEPT !.lastFetch = k,
                                !.loading = FALSE,
                                !.inFlight = @ \ {k}]
        /\ UNCHANGED <<statements, now, data, anomalies, ret, statement,
                       processedData, processingError, pc>>

\* the await of fetch k rejects: setError(err.message), setLoading(false)
FetchFails ==
    \E k \in xapi.inFlight :
        /\ xapi' = [xapi EXCEPT !.error = "Failed to get dashboard data",
                                !.loading = FALSE,
                                !.inFlight = @ \ {k}]
        /\ UNCHANGED <<statements, now, data, anomalies, ret, statement, rawData,
                       processedData, processingError, pc>>

InitFetch ==
    /\ statements = <<>>
    /\ now = 0
    /\ data = EmptyData
    /\ anomalies = <<>>
    /\ pc = "start"
    /\ ret = <<>>
    /\ statement = WireStatement("mbox", "ok", "ok", TRUE, NoScore)
    /\ rawData = [present |-> FALSE]
    /\ processedData = NoSummary
    /\ processingError = NoError
    /\ xapi \in {XAPIIdle,
                 [XAPIIdle EXCEPT !.ready = FALSE,
                                  !.error = "xAPI configuration is incomplete"]}

NextFetch ==
    \/ MountFetch
    \/ DependencyChange
    \/ UserRefresh
    \/ TimerRefresh
    \/ FetchSucceeds
    \/ FetchFails

SpecFetch == InitFetch /\ [][NextFetch]_vars

\* C26: the result of a superseded fetch never overwrites the result of a
\* later-started one, so that once all fetches have completed the stored
\* data is the result of the most recently started successful fetch.
C26_Original ==
    [][(rawData.present /\ rawData'.present) => rawData'.fetch >= rawData.fetch]_vars

\* C27: loading is true in every state in which at least one fetch is in
\* flight, so the auto-refresh timer, which refreshes only when loading is
\* false, never starts a fetch while another one is in flight.
C27_Original == xapi.inFlight # {} => xapi.loading

(***************************************************************************)
(* useProcessedData over successive snapshots                              *)
(***************************************************************************)
MaxSnapshots == 4

\* the bundles that successive fetches deliver: two that process, one
\* without quiz and assignment statements, one that fails the validation
Snapshots ==
    {RawData(TRUE, <<Stmt("q1", VerbScored, TypeQuiz, DayMs + 1000, Scored(1000, TRUE))>>),
     RawData(TRUE, <<Stmt("q1", VerbScored, TypeQuiz, DayMs + 1000, Scored(400, FALSE)),
                     Stmt("a1", VerbCompleted, TypeAssignment, 4 * DayMs + 1000,
                          Scored(855, TRUE))>>),
     RawData(TRUE, <<Stmt("m1", VerbCompleted, TypeModule, DayMs + 1000, Unscored)>>),
     RawData(TRUE, <<Stmt("q2", VerbScored, TypeQuiz, 2 * DayMs + 1000, Scored(700, TRUE)),
                     Stmt("m1", VerbCompleted, TypeModule, 3 * DayMs + 1000, Unscored)>>),
     RawData(FALSE, <<>>)}

\* setData(dashboardData) of a resolved fetch: rawData changes and the
\* processing effect is due again
NewRawData ==
    /\ pc = "processed"
    /\ xapi.started < MaxSnapshots
    /\ \E snapshot \in Snapshots \ {rawData} : rawData' = snapshot
    /\ xapi' = [xapi EXCEPT !.started = @ + 1, !.lastFetch = xapi.started + 1]
    /\ pc' = "start"
    /\ UNCHANGED <<statements, now, data, anomalies, ret, statement,
                   processedData, processingError>>

InitReprocess ==
    /\ statements = <<>>
    /\ now = BundleNow
    /\ data = EmptyData
    /\ anomalies = <<>>
    /\ pc = "start"
    /\ ret = <<>>
    /\ statement = WireStatement("mbox", "ok", "ok", TRUE, NoScore)
    /\ rawData = [present |-> FALSE]
    /\ processedData = NoSummary
    /\ processingError = NoError
    /\ xapi = XAPIIdle

NextReprocess == ProcessRawData \/ NewRawData

SpecReprocess == InitReprocess /\ [][NextReprocess]_vars

\* C28: after the processing effect has run for the current rawData, a
\* non-null processedData was derived from that rawData (a failure of the
\* new snapshot does not leave the summary of an older one exposed), and
\* when the current snapshot processes successfully the error is cleared.
C28_Original ==
    pc = "processed" =>
        LET current == ProcessingEffect(rawData, now, NoSummary, NoError)
        IN /\ processedData.present =>
                 /\ rawData.present
                 /\ processedData = current.processedData
           /\ current.processedData.present => processingError = NoError

(***************************************************************************)
(* Ordering of the streak figures                                          *)
(***************************************************************************)
\* C29: for every statement list and every now, calculateLearningStreak
\* returns 0 <= current <= longest <= totalDays, where totalDays is the
\* number of distinct UTC calendar dates of the statements; for a non-empty
\* list longest >= 1.
C29_StreakBounds ==
    pc = "calculateLearningStreak" =>
        /\ 0 <= ret.current
        /\ ret.current <= ret.longest
        /\ ret.longest <= ret.totalDays
        /\ ret.totalDays = Cardinality(DatesOf(statements))
        /\ Len(statements) > 0 => ret.longest >= 1

\* five statements on four dates (1, 2, 3 and 5, one date twice), now on
\* day 5: current 1 < longest 3 < totalDays 4 < number of statements
C29_Witness ==
    /\ pc = "calculateLearningStreak"
    /\ Len(statements) = 5
    /\ DatesOf(statements) = {1, 2, 3, 5}
    /\ DateOf(now) = 5
    /\ ret = [current |-> 1, longest |-> 3, totalDays |-> 4]

(***************************************************************************)
(* Timeline and engagement summary of the same statements                  *)
(***************************************************************************)
\* createDashboardSummary: generateTimelineData(allStatements), which sorts
\* the array in place, then calculateEngagementMetrics(allStatements)
SummariseActivity ==
    /\ pc = "start"
    /\ \E sortedStatements \in
           {IF Len(statements) = 0 THEN statements ELSE TimelineOrder(statements)} :
          /\ ret' = [timelineData |-> generateTimelineData(statements),
                     engagementMetrics |->
                         calculateEngagementMetrics(sortedStatements, now)]
          /\ statements' = sortedStatements
    /\ pc' = "summariseActivity"
    /\ UNCHANGED <<now, data, anomalies, hookVars>>

\* one instant of day 0, one of day 1, one of day 3
ActivityTimes == {7200000, DayMs + 1000, 3 * DayMs + 1000}

\* a completed module that carries a duration, quiz scores of 86 and 0,
\* a video with a duration and a video without a result
ActivityStmts ==
    {Stmt("m1", VerbCompleted, TypeModule, t, Watched(Duration(0, 0, 30))) :
        t \in ActivityTimes}
    \cup {Stmt("q1", VerbScored, TypeQuiz, t, Scored(855, TRUE)) : t \in ActivityTimes}
    \cup {Stmt("q2", VerbScored, TypeQuiz, t, Scored(0, FALSE)) : t \in ActivityTimes}
    \cup {Stmt("v1", VerbExperienced, TypeVideo, t, Watched(Duration(1, 2, 3))) :
            t \in ActivityTimes}
    \cup {Stmt("v2", VerbExperienced, TypeVideo, t, NoResult) : t \in ActivityTimes}

InitActivity ==
    /\ statements \in BoundedSeq(ActivityStmts, MaxTimelineStmts)
    /\ now = 4 * DayMs
    /\ data = EmptyData
    /\ anomalies = <<>>
    /\ pc = "start"
    /\ ret = <<>>
    /\ HookIdle

NextActivity == SummariseActivity

SpecActivity == InitActivity /\ [][NextActivity]_vars

\* C30: the timeline conserves the input and agrees with the engagement
\* summary of the same statements: the buckets' totalActivities sum to the
\* number of statements, every bucket has completions <= totalActivities and
\* averageScore = null exactly when it has no scores, the number of buckets
\* is totalActiveDays, and the buckets' videoTime sum to totalVideoTime.
C30_TimelineConservation ==
    pc = "summariseActivity" =>
        LET timeline == ret.timelineData
            engagement == ret.engagementMetrics
        IN /\ SumSeq([i \in 1..Len(timeline) |-> timeline[i].totalActivities])
                 = Len(statements)
           /\ \A i \in 1..Len(timeline) :
                 /\ timeline[i].completions <= timeline[i].totalActivities
                 /\ timeline[i].averageScore = Null <=> timeline[i].scores = <<>>
           /\ Len(timeline) = engagement.totalActiveDays
           /\ SumSeq([i \in 1..Len(timeline) |-> timeline[i].videoTime])
                 = engagement.totalVideoTime

\* a module with a duration and a quiz scored 0 on day 0, a video of 1h 2m 3s
\* on day 3: two buckets, the first with average 0 and no video time, the
\* second without scores and with the whole video time
C30_Witness ==
    /\ pc = "summariseActivity"
    /\ Len(statements) = 3
    /\ Len(ret.timelineData) = 2
    /\ ret.timelineData[1].totalActivities = 2
    /\ ret.timelineData[1].completions = 1
    /\ ret.timelineData[1].averageScore = Num(0)
    /\ ret.timelineData[1].videoTime = 0
    /\ ret.timelineData[2].averageScore = Null
    /\ ret.timelineData[2].videoTime = 3723
    /\ ret.engagementMetrics.totalVideoTime = 3723
    /\ ret.engagementMetrics.totalActiveDays = 2

====
